---- MODULE Spec2Model ----
(***************************************************************************)
(* The Intcode virtual machine of days 9, 11 and 13 (the three copies of   *)
(* the Vm are identical; line numbers below are those of day13.rs), with   *)
(* the queue-backed ports and the driver operations of ArcadeCabinet.      *)
(*                                                                         *)
(* A Rust panic ends the process: it is modelled by the variable fatal,    *)
(* which records the panic and after which no operation is enabled.  The   *)
(* pure operators return a record [err, ...]; err = NoErr means the call   *)
(* returned, anything else is the panic it raised.  Intermediate results   *)
(* are handed on as operator arguments, in the order the code computes     *)
(* them.                                                                   *)
(***************************************************************************)
EXTENDS Integers, Sequences, FiniteSets, TLC

VARIABLES
    memory,              \* Vm.memory.data: the tape, cell a is memory[a+1]
    instruction_pointer, \* Vm.instruction_pointer
    input_source,        \* Vm.input_source (VecDeque, front is Head)
    output_sink,         \* Vm.output_sink (VecDeque, back is the last element)
    state,               \* Vm.state
    relative_base,       \* Vm.relative_base
    fatal,               \* NoErr, or the panic that ended the process
    in_run,              \* TRUE while the driver's call of run() is inside its loop
    ret,                 \* the value returned by the last step()/run() that returned
    last_op,             \* the operation the last transition belongs to
    prev_state,          \* Vm.state before the last transition
    last_set,            \* <<>>, or <<index, value>> of the InfiniteTape::set the last transition made
    written,             \* the addresses that were ever the index of an InfiniteTape::set
    program_len,         \* the length of the program image given to Vm::new
    pushes,              \* how many values the driver has pushed so far
    pushed,              \* the values the driver has pushed so far, in order
    heap,                \* the vectors and queues allocated; a reference is an index
    vms,                 \* amps: the Vms of a driver of several, their tapes and ports being references
    actor,               \* the index in vms of the Vm the last transition acted on, 0 if none
    fb,                  \* the locals of test_amp_feedback_circuit and what it has done, <<>> if it is not running
    opt                  \* the locals of optimize_phase_setting and what it has done, <<>> if it is not running

vars == <<memory, instruction_pointer, input_source, output_sink, state,
          relative_base, fatal, in_run, ret, last_op, prev_state, last_set,
          written, program_len, pushes, pushed, heap, vms, actor, fb, opt>>

\* the variables of the drivers of several Vms
amp_vars == <<heap, vms, actor, fb, opt>>

----------------------------------------------------------------------------
(* Bounds of the model *)

\* the driver pushes at most this many values in one execution
MaxPushes == 2
\* an Output instruction is not modelled once this many values are undrained
MaxOut == 2
\* results of Add/Mul and the relative base are kept within -MaxValue..MaxValue
MaxValue == 4
\* a store that would grow the tape beyond this many cells is not modelled
MaxExtent == 128

----------------------------------------------------------------------------
(* Results of calls that may panic *)

NoErr == "none"
Ok(v) == [err |-> NoErr, val |-> v]
Panic(msg) == [err |-> msg, val |-> 0]

\* Rust's / and % on i64 truncate toward zero
TruncDiv(a, b) == IF a >= 0 THEN a \div b ELSE -((-a) \div b)
TruncRem(a, b) == a - b * TruncDiv(a, b)

RECURSIVE Pow10(_)
Pow10(n) == IF n = 0 THEN 1 ELSE 10 * Pow10(n - 1)

----------------------------------------------------------------------------
(* Ports *)

\* a length that counts one value more than the port holds
InputSource_len_plus_one(q) == Len(q) + 1

InputSource_len(q) == Len(q)

\* a read that takes the value pushed last
InputSource_read_back(q) ==
    IF Len(q) = 0
    THEN [err |-> "InputSource VecDeque is empty!", val |-> 0, rest |-> q]
    ELSE [err |-> NoErr, val |-> q[Len(q)], rest |-> SubSeq(q, 1, Len(q) - 1)]

InputSource_read(q) ==
    IF Len(q) = 0
    THEN [err |-> "InputSource VecDeque is empty!", val |-> 0, rest |-> q]
    ELSE [err |-> NoErr, val |-> Head(q), rest |-> Tail(q)]

\* a write at the front of the queue
OutputSink_write_front(q, value) == <<value>> \o q

OutputSink_write(q, value) == Append(q, value)

----------------------------------------------------------------------------
(* InfiniteTape *)

\* a set that fills the new cells with the stored value
InfiniteTape_set_filling(data, index, value) ==
    LET resized == IF index >= Len(data)
                   THEN data \o [i \in 1..(index + 1 - Len(data)) |-> value]
                   ELSE data
    IN  [resized EXCEPT ![index + 1] = value]

\* a set that resizes without its test, cutting the tape at index + 1
InfiniteTape_set_truncating(data, index, value) ==
    LET resized == IF index >= Len(data)
                   THEN data \o [i \in 1..(index + 1 - Len(data)) |-> 0]
                   ELSE SubSeq(data, 1, index + 1)
    IN  [resized EXCEPT ![index + 1] = value]

\* a set that grows the tape by one cell too many
InfiniteTape_set_overgrowing(data, index, value) ==
    LET resized == IF index >= Len(data)
                   THEN data \o [i \in 1..(index + 2 - Len(data)) |-> 0]
                   ELSE data
    IN  [resized EXCEPT ![index + 1] = value]

InfiniteTape_set(data, index, value) ==
    LET resized == IF index >= Len(data)
                   THEN data \o [i \in 1..(index + 1 - Len(data)) |-> 0]
                   ELSE data
    IN  [resized EXCEPT ![index + 1] = value]

\* a get that finds a Terminate word beyond the extent
InfiniteTape_get_terminating(data, index) ==
    IF index >= Len(data) THEN 99 ELSE data[index + 1]

InfiniteTape_get(data, index) ==
    IF index >= Len(data) THEN 0 ELSE data[index + 1]

----------------------------------------------------------------------------
(* Instruction decoding *)

\* the match of ParamMode::read
ParamMode_of(digit) ==
    CASE digit = 0 -> Ok("Position")
      [] digit = 1 -> Ok("Immediate")
      [] digit = 2 -> Ok("Relative")
      [] OTHER -> Panic("Unrecognized parameter mode digit")

ParamMode_read(instruction, param_num) ==
    ParamMode_of(TruncRem(TruncDiv(instruction, Pow10(param_num + 1)), 10))

\* the match of OpCode::read
OpCode_of(code) ==
    CASE code = 1 -> Ok("Add")
      [] code = 2 -> Ok("Mul")
      [] code = 3 -> Ok("Input")
      [] code = 4 -> Ok("Output")
      [] code = 5 -> Ok("JumpIfTrue")
      [] code = 6 -> Ok("JumpIfFalse")
      [] code = 7 -> Ok("LessThan")
      [] code = 8 -> Ok("Equals")
      [] code = 9 -> Ok("AdjustRelativeBase")
      [] code = 99 -> Ok("Terminate")
      [] OTHER -> Panic("Unknown opcode")

\* a decoding by the floor remainder, which is never negative
OpCode_read_floor(instruction) == OpCode_of(instruction % 100)

OpCode_read(instruction) == OpCode_of(TruncRem(instruction, 100))

get_param_count(op_code) ==
    CASE op_code \in {"Add", "Mul", "LessThan", "Equals"} -> 3
      [] op_code \in {"JumpIfTrue", "JumpIfFalse"} -> 2
      [] op_code \in {"Input", "Output", "AdjustRelativeBase"} -> 1
      [] op_code = "Terminate" -> 0

\* a table that classifies the parameter of Input as Read
get_param_type_input_read(op_code, param_num) ==
    CASE op_code \in {"Add", "Mul", "LessThan", "Equals"} /\ param_num \in {1, 2} -> Ok("Read")
      [] op_code \in {"Add", "Mul", "LessThan", "Equals"} /\ param_num = 3 -> Ok("Write")
      [] op_code \in {"Input", "Output", "AdjustRelativeBase"} /\ param_num = 1 -> Ok("Read")
      [] op_code \in {"JumpIfTrue", "JumpIfFalse"} /\ param_num \in {1, 2} -> Ok("Read")
      [] OTHER -> Panic("Invalid param number")

get_param_type(op_code, param_num) ==
    CASE op_code \in {"Add", "Mul", "LessThan", "Equals"} /\ param_num \in {1, 2} -> Ok("Read")
      [] op_code \in {"Add", "Mul", "LessThan", "Equals"} /\ param_num = 3 -> Ok("Write")
      [] op_code = "Input" /\ param_num = 1 -> Ok("Write")
      [] op_code \in {"Output", "AdjustRelativeBase"} /\ param_num = 1 -> Ok("Read")
      [] op_code \in {"JumpIfTrue", "JumpIfFalse"} /\ param_num \in {1, 2} -> Ok("Read")
      [] OTHER -> Panic("Invalid param number")

----------------------------------------------------------------------------
(* Vm *)

\* a constructor that leaves a first word of padding before the program
Vm_new_padded(program) ==
    [memory |-> <<0>> \o program,
     instruction_pointer |-> 1,
     input_source |-> <<>>,
     output_sink |-> <<>>,
     state |-> "NotStarted",
     relative_base |-> 0]

Vm_new(program) ==
    [memory |-> program,
     instruction_pointer |-> 0,
     input_source |-> <<>>,
     output_sink |-> <<>>,
     state |-> "NotStarted",
     relative_base |-> 0]

\* a conversion that wraps a negative address instead of failing
checked_address_wrapping(address) == Ok(address % 256)

\* if address < 0 { panic!("Invalid address") } return address as usize
checked_address(address) ==
    IF address < 0 THEN Panic("Invalid address") ELSE Ok(address)

\* the arm Immediate of get_param_address
immediate_address(type, param_pointer) ==
    IF type.err # NoErr THEN type
    ELSE IF type.val = "Write"
    THEN Panic("Write parameter must not be in immediate mode")
    ELSE Ok(param_pointer)

\* a resolution that ignores the relative base
resolve_param_without_base(self, op_code, param_num, mode) ==
    IF mode.err # NoErr THEN mode
    ELSE CASE mode.val = "Position" ->
                checked_address(InfiniteTape_get(self.memory,
                                    self.instruction_pointer + param_num))
           [] mode.val = "Immediate" ->
                immediate_address(get_param_type(op_code, param_num),
                                  self.instruction_pointer + param_num)
           [] mode.val = "Relative" ->
                checked_address(InfiniteTape_get(self.memory,
                                    self.instruction_pointer + param_num))

\* a resolution that adds the relative base in Position mode too
resolve_param_position_based(self, op_code, param_num, mode) ==
    IF mode.err # NoErr THEN mode
    ELSE CASE mode.val = "Position" ->
                checked_address(InfiniteTape_get(self.memory,
                                    self.instruction_pointer + param_num)
                                + self.relative_base)
           [] mode.val = "Immediate" ->
                immediate_address(get_param_type(op_code, param_num),
                                  self.instruction_pointer + param_num)
           [] mode.val = "Relative" ->
                checked_address(InfiniteTape_get(self.memory,
                                    self.instruction_pointer + param_num)
                                + self.relative_base)

\* the match on mode of get_param_address
resolve_param(self, op_code, param_num, mode) ==
    IF mode.err # NoErr THEN mode
    ELSE CASE mode.val = "Position" ->
                checked_address(InfiniteTape_get(self.memory,
                                    self.instruction_pointer + param_num))
           [] mode.val = "Immediate" ->
                immediate_address(get_param_type(op_code, param_num),
                                  self.instruction_pointer + param_num)
           [] mode.val = "Relative" ->
                checked_address(InfiniteTape_get(self.memory,
                                    self.instruction_pointer + param_num)
                                + self.relative_base)

get_param_address(self, op_code, param_num) ==
    resolve_param(self, op_code, param_num,
        ParamMode_read(InfiniteTape_get(self.memory, self.instruction_pointer),
                       param_num))

\* self.memory.get(address), address being the result of get_param_address
read_at(self, address) ==
    IF address.err # NoErr THEN address
    ELSE Ok(InfiniteTape_get(self.memory, address.val))

\* the closure get_param of execute_operation
get_param(self, op_code, param_num) ==
    read_at(self, get_param_address(self, op_code, param_num))

\* the closure validate_addr of execute_operation
validate_addr(value) ==
    IF value < 0 THEN Panic("Cannot jump to negative address") ELSE Ok(value)

\* the first panic among calls made in this order, NoErr if all returned
FirstErr(results) ==
    LET failed == {i \in 1..Len(results) : results[i].err # NoErr}
    IN  IF failed = {} THEN NoErr
        ELSE results[CHOOSE i \in failed : \A j \in failed : i <= j].err

\* What execute_operation returns: new_ip is <<>> for None and <<v>> for Some(v);
\* wrote is <<>>, or <<index, value>> of the InfiniteTape::set it made.
Returned(self, new_ip, wrote) ==
    [err |-> NoErr, vm |-> self, new_ip |-> new_ip, wrote |-> wrote]
Panicked(self, msg) ==
    [err |-> msg, vm |-> self, new_ip |-> <<>>, wrote |-> <<>>]

\* an advance by the fixed width of four words
next_instruction_fixed(self, op_code) == <<self.instruction_pointer + 4>>

\* Some(self.instruction_pointer + 1 + op_code.get_param_count())
next_instruction(self, op_code) ==
    <<self.instruction_pointer + 1 + get_param_count(op_code)>>

\* an Add that multiplies
result_value_product(op_code, a, b) ==
    CASE op_code = "Add" -> a * b
      [] op_code = "Mul" -> a * b
      [] op_code = "LessThan" -> IF a < b THEN 1 ELSE 0
      [] op_code = "Equals" -> IF a = b THEN 1 ELSE 0

\* a LessThan that compares the operands as unsigned words
result_value_unsigned(op_code, a, b) ==
    CASE op_code = "Add" -> a + b
      [] op_code = "Mul" -> a * b
      [] op_code = "LessThan" ->
            IF (a >= 0) = (b >= 0)
            THEN (IF a < b THEN 1 ELSE 0)
            ELSE (IF b < 0 THEN 1 ELSE 0)
      [] op_code = "Equals" -> IF a = b THEN 1 ELSE 0

\* an Equals that tests for less
result_value_equals_as_less(op_code, a, b) ==
    CASE op_code = "Add" -> a + b
      [] op_code = "Mul" -> a * b
      [] op_code = "LessThan" -> IF a < b THEN 1 ELSE 0
      [] op_code = "Equals" -> IF a < b THEN 1 ELSE 0

\* the value the arms Add, Mul, LessThan, Equals store
result_value(op_code, a, b) ==
    CASE op_code = "Add" -> a + b
      [] op_code = "Mul" -> a * b
      [] op_code = "LessThan" -> IF a < b THEN 1 ELSE 0
      [] op_code = "Equals" -> IF a = b THEN 1 ELSE 0

\* a store that writes the cell after index as well
store_value_pair(self, op_code, index, value) ==
    Returned([self EXCEPT !.memory =
                 InfiniteTape_set(InfiniteTape_set(@, index, value),
                                  index + 1, value)],
             next_instruction(self, op_code), <<index, value>>)

\* self.memory.set(index, value), then the default advance
store_value(self, op_code, index, value) ==
    Returned([self EXCEPT !.memory = InfiniteTape_set(@, index, value)],
             next_instruction(self, op_code), <<index, value>>)

store3(self, op_code, addr, a, b) ==
    IF FirstErr(<<addr, a, b>>) # NoErr
    THEN Panicked(self, FirstErr(<<addr, a, b>>))
    ELSE store_value(self, op_code, addr.val,
                     result_value(op_code, a.val, b.val))

\* the arms Add, Mul, LessThan, Equals: the address of parameter 3 first,
\* then the operands 1 and 2, then the store
exec_store3(self, op_code) ==
    store3(self, op_code, get_param_address(self, op_code, 3),
           get_param(self, op_code, 1), get_param(self, op_code, 2))

\* an Input that takes the value from the port before it resolves its
\* parameter
input_store_reading_first(self, op_code, addr, value) ==
    IF value.err # NoErr THEN Panicked(self, value.err)
    ELSE IF addr.err # NoErr
    THEN Panicked([self EXCEPT !.input_source = value.rest], addr.err)
    ELSE store_value([self EXCEPT !.input_source = value.rest], op_code,
                     addr.val, value.val)

\* an Input that leaves the value it stores in the port
input_store_peeking(self, op_code, addr, value) ==
    IF FirstErr(<<addr, value>>) # NoErr
    THEN Panicked(self, FirstErr(<<addr, value>>))
    ELSE store_value(self, op_code, addr.val, value.val)

input_store(self, op_code, addr, value) ==
    IF FirstErr(<<addr, value>>) # NoErr
    THEN Panicked(self, FirstErr(<<addr, value>>))
    ELSE store_value([self EXCEPT !.input_source = value.rest], op_code,
                     addr.val, value.val)

\* the arm Input
exec_input(self, op_code) ==
    input_store(self, op_code, get_param_address(self, op_code, 1),
                InputSource_read(self.input_source))

output_write(self, op_code, value) ==
    IF value.err # NoErr THEN Panicked(self, value.err)
    ELSE Returned([self EXCEPT !.output_sink = OutputSink_write(@, value.val)],
                  next_instruction(self, op_code), <<>>)

\* an Output that writes the address of its parameter
exec_output_address(self, op_code) ==
    output_write(self, op_code, get_param_address(self, op_code, 1))

\* the arm Output
exec_output(self, op_code) ==
    output_write(self, op_code, get_param(self, op_code, 1))

\* Some(validate_addr(...))
jump_valid(self, valid) ==
    IF valid.err # NoErr THEN Panicked(self, valid.err)
    ELSE Returned(self, <<valid.val>>, <<>>)

jump_to(self, target) ==
    IF target.err # NoErr THEN Panicked(self, target.err)
    ELSE jump_valid(self, validate_addr(target.val))

\* a jump whose read of parameter 1 extends the tape to the cell read
jump_growing(self, op_code, on_true, addr) ==
    IF addr.err # NoErr THEN Panicked(self, addr.err)
    ELSE IF (InfiniteTape_get(self.memory, addr.val) # 0) = on_true
    THEN jump_to([self EXCEPT !.memory =
                     IF addr.val >= Len(@)
                     THEN @ \o [i \in 1..(addr.val + 1 - Len(@)) |-> 0]
                     ELSE @],
                 get_param(self, op_code, 2))
    ELSE Returned([self EXCEPT !.memory =
                     IF addr.val >= Len(@)
                     THEN @ \o [i \in 1..(addr.val + 1 - Len(@)) |-> 0]
                     ELSE @],
                  next_instruction(self, op_code), <<>>)

jump(self, op_code, on_true, addr) ==
    IF addr.err # NoErr THEN Panicked(self, addr.err)
    ELSE IF (InfiniteTape_get(self.memory, addr.val) # 0) = on_true
    THEN jump_to(self, get_param(self, op_code, 2))
    ELSE Returned(self, next_instruction(self, op_code), <<>>)

\* jumps with their conditions exchanged
exec_jump_swapped(self, op_code, on_true) ==
    jump(self, op_code, ~on_true, get_param_address(self, op_code, 1))

\* the arms JumpIfTrue (on_true = TRUE) and JumpIfFalse (on_true = FALSE)
exec_jump(self, op_code, on_true) ==
    jump(self, op_code, on_true, get_param_address(self, op_code, 1))

\* an adjustment without the test of the new base
set_relative_base_unchecked(self, op_code, new_base) ==
    Returned([self EXCEPT !.relative_base = new_base],
             next_instruction(self, op_code), <<>>)

\* an adjustment that replaces the relative base by the parameter
set_relative_base_replacing(self, op_code, new_base) ==
    IF new_base - self.relative_base < 0
    THEN Panicked(self, "Invalid new relative base")
    ELSE Returned([self EXCEPT !.relative_base = new_base - self.relative_base],
                  next_instruction(self, op_code), <<>>)

set_relative_base(self, op_code, new_base) ==
    IF new_base < 0 THEN Panicked(self, "Invalid new relative base")
    ELSE Returned([self EXCEPT !.relative_base = new_base],
                  next_instruction(self, op_code), <<>>)

adjust_relative_base(self, op_code, value) ==
    IF value.err # NoErr THEN Panicked(self, value.err)
    ELSE set_relative_base(self, op_code, self.relative_base + value.val)

\* the arm AdjustRelativeBase
exec_adjust_relative_base(self, op_code) ==
    adjust_relative_base(self, op_code, get_param(self, op_code, 1))

\* an execute_operation that decodes the mode of a parameter of Terminate
execute_operation_decoding(self, op_code) ==
    CASE op_code \in {"Add", "Mul", "LessThan", "Equals"} -> exec_store3(self, op_code)
      [] op_code = "Input" -> exec_input(self, op_code)
      [] op_code = "Output" -> exec_output(self, op_code)
      [] op_code = "JumpIfTrue" -> exec_jump(self, op_code, TRUE)
      [] op_code = "JumpIfFalse" -> exec_jump(self, op_code, FALSE)
      [] op_code = "AdjustRelativeBase" -> exec_adjust_relative_base(self, op_code)
      [] op_code = "Terminate" ->
            IF get_param_address(self, "Output", 1).err # NoErr
            THEN Panicked(self, get_param_address(self, "Output", 1).err)
            ELSE Returned(self, <<>>, <<>>)

execute_operation(self, op_code) ==
    CASE op_code \in {"Add", "Mul", "LessThan", "Equals"} -> exec_store3(self, op_code)
      [] op_code = "Input" -> exec_input(self, op_code)
      [] op_code = "Output" -> exec_output(self, op_code)
      [] op_code = "JumpIfTrue" -> exec_jump(self, op_code, TRUE)
      [] op_code = "JumpIfFalse" -> exec_jump(self, op_code, FALSE)
      [] op_code = "AdjustRelativeBase" -> exec_adjust_relative_base(self, op_code)
      [] op_code = "Terminate" -> Returned(self, <<>>, <<>>)

\* What step() does: vm is the Vm when it returns or panics, ret the value it
\* returns, wrote the InfiniteTape::set it made, executed the opcode handed
\* to execute_operation ("" if none was).
StepResult(err, vm, status, wrote, executed) ==
    [err |-> err, vm |-> vm, ret |-> status, wrote |-> wrote, executed |-> executed]

\* a step() without the check for pending input
step_suspends_never(self, op_code) == FALSE

\* op_code == OpCode::Input && self.input_source.len() == 0
step_suspends(self, op_code) ==
    op_code = "Input" /\ InputSource_len(self.input_source) = 0

\* a step() that moves past the Terminate word
step_commit_advancing(self, new_ip) ==
    IF new_ip # <<>>
    THEN [self EXCEPT !.instruction_pointer = new_ip[1]]
    ELSE [self EXCEPT !.state = "Terminated",
                      !.instruction_pointer = self.instruction_pointer + 1]

\* match new_ip { Some(v) => instruction_pointer = v, None => state = Terminated }
step_commit(self, new_ip) ==
    IF new_ip # <<>>
    THEN [self EXCEPT !.instruction_pointer = new_ip[1]]
    ELSE [self EXCEPT !.state = "Terminated"]

\* a step() that returns Terminated whatever the stored status is
step_return_terminated(self, wrote, executed) ==
    StepResult(NoErr, self, "Terminated", wrote, executed)

\* a step() that returns Running whatever the stored status is
step_return_running(self, wrote, executed) ==
    StepResult(NoErr, self, "Running", wrote, executed)

\* return self.state
step_return(self, wrote, executed) ==
    StepResult(NoErr, self, self.state, wrote, executed)

step_executed(op_code, done) ==
    IF done.err # NoErr
    THEN StepResult(done.err, done.vm, "", <<>>, op_code)
    ELSE step_return(step_commit(done.vm, done.new_ip), done.wrote, op_code)

\* a step() that forgets the relative base when it suspends
step_decoded_resetting(self, op_code) ==
    IF op_code.err # NoErr
    THEN StepResult(op_code.err, self, "", <<>>, "")
    ELSE IF step_suspends(self, op_code.val)
    THEN step_return([self EXCEPT !.state = "WaitForInput",
                                  !.relative_base = 0],
                     <<>>, "")
    ELSE step_executed(op_code.val, execute_operation(self, op_code.val))

\* a step() that consumes the Input instruction when it suspends
step_decoded_consuming(self, op_code) ==
    IF op_code.err # NoErr
    THEN StepResult(op_code.err, self, "", <<>>, "")
    ELSE IF step_suspends(self, op_code.val)
    THEN step_return([self EXCEPT !.state = "WaitForInput",
                                  !.instruction_pointer = self.instruction_pointer + 2],
                     <<>>, "")
    ELSE step_executed(op_code.val, execute_operation(self, op_code.val))

step_decoded(self, op_code) ==
    IF op_code.err # NoErr
    THEN StepResult(op_code.err, self, "", <<>>, "")
    ELSE IF step_suspends(self, op_code.val)
    THEN step_return([self EXCEPT !.state = "WaitForInput"], <<>>, "")
    ELSE step_executed(op_code.val, execute_operation(self, op_code.val))

\* after self.state = VmState::Running
step_started(self) ==
    step_decoded(self, OpCode_read(InfiniteTape_get(self.memory,
                                                    self.instruction_pointer)))

\* a step() that does not set the status before it decodes
step_unmarked(self) == step_started(self)

step(self) == step_started([self EXCEPT !.state = "Running"])

\* a run() that returns after one step
run_match_once(status) ==
    CASE status = "NotStarted" -> "panic"
      [] status = "Running" -> "break"
      [] status = "WaitForInput" -> "break"
      [] status = "Terminated" -> "break"

\* the match on step()'s result in run()
run_match(status) ==
    CASE status = "NotStarted" -> "panic"
      [] status = "Running" -> "continue"
      [] status = "WaitForInput" -> "break"
      [] status = "Terminated" -> "break"

----------------------------------------------------------------------------
(* The programs and inputs of the model *)

\* Instructions the programs are built from: every opcode, the three modes
\* and an unknown mode digit, Write parameters in Immediate mode, negative
\* addresses, jump targets and base adjustments, stores onto the instruction
\* itself and beyond the end of the program, words that are no opcode, jumps
\* not taken whose target parameter does not resolve, comparisons that are
\* false, and a Terminate under an unknown mode digit.
Instructions ==
    { <<99>>, <<399>>,
      <<3, 0>>, <<3, 5>>, <<103, 0>>, <<203, 1>>,
      <<4, 0>>, <<104, -1>>, <<204, -1>>, <<304, 0>>,
      <<1, 0, 0, 0>>, <<1101, 1, 1, 6>>, <<11101, 1, 1, 0>>, <<1, -1, 0, 0>>,
      <<21102, 2, -1, 2>>,
      <<1105, 1, 0>>, <<1105, 1, -1>>, <<1106, 0, 2>>, <<5, 9, 9>>,
      <<1106, 1, 0>>, <<3105, 0, 0>>, <<105, 0, -1>>,
      <<1107, 0, 1, 1>>, <<1108, 1, 1, 9>>,
      <<1107, 1, -1, 1>>, <<1108, -1, 1, 3>>,
      <<109, 1>>, <<109, -1>>,
      <<-1>> }

\* the examples of the specification's testable properties that take the
\* driver's inputs
Examples == { <<1, 0, 0, 0, 99>>, <<3, 0, 4, 0, 99>> }

Programs == {a \o b : a \in Instructions, b \in Instructions} \cup Examples

\* the values ArcadeCabinet::step pushes for Neutral, Left, Right
JoystickValues == {0, -1, 1}

\* the coins main() gives ArcadeCabinet::new
Coins == 2

----------------------------------------------------------------------------
(* The state machine *)

Self ==
    [memory |-> memory,
     instruction_pointer |-> instruction_pointer,
     input_source |-> input_source,
     output_sink |-> output_sink,
     state |-> state,
     relative_base |-> relative_base]

\* the Vm's fields become those of the record vm
Store(vm) ==
    /\ memory' = vm.memory
    /\ instruction_pointer' = vm.instruction_pointer
    /\ input_source' = vm.input_source
    /\ output_sink' = vm.output_sink
    /\ state' = vm.state
    /\ relative_base' = vm.relative_base

\* an InfiniteTape::set is recorded
Record(wrote) ==
    /\ last_set' = wrote
    /\ written' = IF wrote = <<>> THEN written ELSE written \cup {wrote[1]}

\* the step stays within the bounds of the model
WithinBounds(r) ==
    /\ Len(r.vm.output_sink) <= MaxOut
    /\ r.vm.relative_base <= MaxValue
    /\ Len(r.vm.memory) <= MaxExtent
    /\ r.executed \in {"Add", "Mul"} /\ r.wrote # <<>>
           => r.wrote[2] \in -MaxValue..MaxValue

Alive == fatal = NoErr

\* a driver of one Vm allocates no others
NoAmps == heap = <<>> /\ vms = <<>> /\ actor = 0 /\ fb = <<>> /\ opt = <<>>
Idle == Alive /\ ~in_run

\* Vm::new(program)
Init ==
    /\ \E program \in Programs :
        /\ memory = Vm_new(program).memory
        /\ program_len = Len(program)
    /\ instruction_pointer = Vm_new(<<>>).instruction_pointer
    /\ input_source = Vm_new(<<>>).input_source
    /\ output_sink = Vm_new(<<>>).output_sink
    /\ state = Vm_new(<<>>).state
    /\ relative_base = Vm_new(<<>>).relative_base
    /\ fatal = NoErr
    /\ in_run = FALSE
    /\ ret = "NotStarted"
    /\ last_op = "new"
    /\ prev_state = "NotStarted"
    /\ last_set = <<>>
    /\ written = {}
    /\ pushes = 0
    /\ pushed = <<>>
    /\ NoAmps

\* cabinet.vm.memory.set(0, coins), right after Vm::new
Poke ==
    /\ Idle
    /\ last_op = "new"
    /\ memory' = InfiniteTape_set(memory, 0, Coins)
    /\ Record(<<0, Coins>>)
    /\ last_op' = "poke"
    /\ prev_state' = state
    /\ UNCHANGED <<instruction_pointer, input_source, output_sink, state,
                   relative_base, fatal, in_run, ret, program_len, pushes,
                   pushed, amp_vars>>

\* vm.input_source.push_back(v)
Push ==
    /\ Idle
    /\ pushes < MaxPushes
    /\ \E v \in JoystickValues :
        /\ input_source' = Append(input_source, v)
        /\ pushed' = Append(pushed, v)
    /\ pushes' = pushes + 1
    /\ last_op' = "push"
    /\ prev_state' = state
    /\ last_set' = <<>>
    /\ UNCHANGED <<memory, instruction_pointer, output_sink, state,
                   relative_base, fatal, in_run, ret, written, program_len,
                   amp_vars>>

\* vm.output_sink.clear(), after the driver has read the output
Drain ==
    /\ Idle
    /\ output_sink # <<>>
    /\ output_sink' = <<>>
    /\ last_op' = "drain"
    /\ prev_state' = state
    /\ last_set' = <<>>
    /\ UNCHANGED <<memory, instruction_pointer, input_source, state,
                   relative_base, fatal, in_run, ret, written, program_len,
                   pushes, pushed, amp_vars>>

\* the effect on the state of a call of step() with result r
Stepped(r) ==
    /\ WithinBounds(r)
    /\ Store(r.vm)
    /\ Record(r.wrote)
    /\ prev_state' = state
    /\ fatal' = r.err

\* step() hands its result r to the driver
StepReturned(r) ==
    /\ Stepped(r)
    /\ ret' = IF r.err = NoErr THEN r.ret ELSE ret
    /\ last_op' = "step"
    /\ UNCHANGED <<in_run, program_len, pushes, pushed, amp_vars>>

\* the driver calls vm.step()
StepCall ==
    /\ Idle
    /\ StepReturned(step(Self))

\* the match of run() on the result r of step(): todo is what it selects
RunEffect(r, todo) ==
    /\ Store(r.vm)
    /\ Record(r.wrote)
    /\ prev_state' = state
    /\ fatal' = IF r.err # NoErr THEN r.err
                ELSE IF todo = "panic" THEN "Invalid state after step()"
                ELSE NoErr
    /\ in_run' = (todo # "break")
    /\ ret' = IF todo = "break" THEN r.vm.state ELSE ret
    /\ last_op' = "run"
    /\ UNCHANGED <<program_len, pushes, pushed, amp_vars>>

\* the arm of the match that the result r of step() selects
RunTodo(r) == IF r.err = NoErr THEN run_match(r.ret) ELSE "panic"

\* the match of run(), within the bounds of the model
RunMatched(r, todo) == WithinBounds(r) /\ RunEffect(r, todo)

\* one iteration of the loop of run(): step(), then the match on its result;
\* on break, run() returns self.state
RunIteration(r) == RunMatched(r, RunTodo(r))

\* the driver calls vm.run(): the first iteration of its loop
RunCall ==
    /\ Idle
    /\ RunIteration(step(Self))

\* the following iterations
RunLoop ==
    /\ Alive
    /\ in_run
    /\ RunIteration(step(Self))

Next == Poke \/ Push \/ Drain \/ StepCall \/ RunCall \/ RunLoop

Spec == Init /\ [][Next]_vars

----------------------------------------------------------------------------
(* The example programs, run as main() of day 9 runs its program: a new Vm,
   at most one value pushed, then run() *)

\* the program that writes itself, the one that writes its input, and the
\* one that writes whether its input is 8
Quine ==
    <<109, 1, 204, -1, 1001, 100, 1, 100, 1008, 100, 16, 101, 1006, 101, 0, 99>>
Echo == <<3, 0, 4, 0, 99>>
EqualsEight == <<3, 9, 8, 9, 10, 9, 4, 9, 99, -1, 8>>
ExamplePrograms == {Quine, Echo, EqualsEight}

\* the values pushed
ExampleInputs == {5, 7, 8}

\* Vm::new(program.clone())
ExampleInit ==
    /\ \E program \in ExamplePrograms :
        /\ memory = Vm_new(program).memory
        /\ program_len = Len(program)
    /\ instruction_pointer = Vm_new(<<>>).instruction_pointer
    /\ input_source = Vm_new(<<>>).input_source
    /\ output_sink = Vm_new(<<>>).output_sink
    /\ state = Vm_new(<<>>).state
    /\ relative_base = Vm_new(<<>>).relative_base
    /\ fatal = NoErr
    /\ in_run = FALSE
    /\ ret = "NotStarted"
    /\ last_op = "new"
    /\ prev_state = "NotStarted"
    /\ last_set = <<>>
    /\ written = {}
    /\ pushes = 0
    /\ pushed = <<>>
    /\ NoAmps

\* vm.input_source.push_back(v), right after Vm::new
ExamplePush ==
    /\ Idle
    /\ last_op = "new"
    /\ \E v \in ExampleInputs :
        /\ input_source' = Append(input_source, v)
        /\ pushed' = Append(pushed, v)
    /\ pushes' = pushes + 1
    /\ last_op' = "push"
    /\ prev_state' = state
    /\ last_set' = <<>>
    /\ UNCHANGED <<memory, instruction_pointer, output_sink, state,
                   relative_base, fatal, in_run, ret, written, program_len,
                   amp_vars>>

\* vm.run(): the first iteration of its loop
ExampleRunCall ==
    /\ Idle
    /\ RunEffect(step(Self), RunTodo(step(Self)))

\* the following iterations
ExampleRunLoop ==
    /\ Alive
    /\ in_run
    /\ RunEffect(step(Self), RunTodo(step(Self)))

ExampleNext == ExamplePush \/ ExampleRunCall \/ ExampleRunLoop

SpecExamples == ExampleInit /\ [][ExampleNext]_vars

----------------------------------------------------------------------------
(* Several Vms made from one program vector, as test_amp_feedback_circuit of
   day 7 makes its amps.  Vectors and queues live in heap and a Vm holds
   references to its own. *)

\* the driver makes at most this many Vms
MaxVms == 2

\* the program the Vms are made from: it reads a value into cell 0, raises
\* the relative base, writes cell 0 and terminates
AmpPrograms == { <<3, 0, 109, 1, 4, 0, 99>> }

\* the value the driver pushes
AmpInputs == {0}

\* a clone that hands out the vector cloned
Vec_clone_aliasing(h, ref) == [heap |-> h, ref |-> ref]

\* program.clone(): a new vector with the cells of the vector at ref
Vec_clone(h, ref) == [heap |-> Append(h, h[ref]), ref |-> Len(h) + 1]

\* I::default(), O::default(): a new, empty VecDeque
VecDeque_new(h) == [heap |-> Append(h, <<>>), ref |-> Len(h) + 1]

\* Vm::new(program), the vector at the reference program being moved into
\* the Vm and the ports at input and output being new
Vm_new_at(program, input, output) ==
    [Vm_new(program) EXCEPT !.input_source = input, !.output_sink = output]

\* amps.push(Vm::new(program.clone())), the allocations made in the order
\* clone, I::default(), O::default()
amps_push(h, tape, input, output) ==
    /\ heap' = output.heap
    /\ vms' = Append(vms, Vm_new_at(tape.ref, input.ref, output.ref))
    /\ actor' = Len(vms) + 1

\* the Vm at index i, its references followed
Deref(h, vm) ==
    [memory |-> h[vm.memory],
     instruction_pointer |-> vm.instruction_pointer,
     input_source |-> h[vm.input_source],
     output_sink |-> h[vm.output_sink],
     state |-> vm.state,
     relative_base |-> vm.relative_base]
Amp(i) == Deref(heap, vms[i])

\* the fields of the Vm at index i become those of the record vm
AmpStore(i, vm) ==
    /\ heap' = [heap EXCEPT ![vms[i].memory] = vm.memory,
                            ![vms[i].input_source] = vm.input_source,
                            ![vms[i].output_sink] = vm.output_sink]
    /\ vms' = [vms EXCEPT ![i] = [@ EXCEPT
                   !.instruction_pointer = vm.instruction_pointer,
                   !.state = vm.state,
                   !.relative_base = vm.relative_base]]
    /\ actor' = i

\* what a driver of several Vms leaves alone: the Vm of the other drivers
single_vars ==
    <<memory, instruction_pointer, input_source, output_sink, state,
      relative_base, prev_state, last_set, written, program_len, pushes,
      pushed, fb, opt>>

\* let program = read_program(...): the vector the Vms are cloned from
AmpInit ==
    /\ \E program \in AmpPrograms : heap = <<program>>
    /\ vms = <<>>
    /\ actor = 0
    /\ fb = <<>>
    /\ opt = <<>>
    /\ memory = <<>>
    /\ instruction_pointer = 0
    /\ input_source = <<>>
    /\ output_sink = <<>>
    /\ state = "NotStarted"
    /\ relative_base = 0
    /\ fatal = NoErr
    /\ in_run = FALSE
    /\ ret = "NotStarted"
    /\ last_op = "new"
    /\ prev_state = "NotStarted"
    /\ last_set = <<>>
    /\ written = {}
    /\ program_len = 0
    /\ pushes = 0
    /\ pushed = <<>>

\* amps.push(Vm::new(program.clone()))
AmpNew ==
    /\ Idle
    /\ Len(vms) < MaxVms
    /\ amps_push(heap, Vec_clone(heap, 1),
                 VecDeque_new(Vec_clone(heap, 1).heap),
                 VecDeque_new(VecDeque_new(Vec_clone(heap, 1).heap).heap))
    /\ last_op' = "new"
    /\ UNCHANGED <<fatal, in_run, ret>>
    /\ UNCHANGED single_vars

\* amps[i].input_source.push_back(v)
AmpPush ==
    /\ Idle
    /\ \E i \in 1..Len(vms) :
        /\ Len(Amp(i).input_source) < MaxPushes
        /\ \E v \in AmpInputs :
            AmpStore(i, [Amp(i) EXCEPT !.input_source = Append(@, v)])
    /\ last_op' = "push"
    /\ UNCHANGED <<fatal, in_run, ret>>
    /\ UNCHANGED single_vars

\* amps[i].output_sink.pop_front().unwrap()
AmpDrain ==
    /\ Idle
    /\ \E i \in 1..Len(vms) :
        /\ Amp(i).output_sink # <<>>
        /\ AmpStore(i, [Amp(i) EXCEPT !.output_sink = Tail(@)])
    /\ last_op' = "drain"
    /\ UNCHANGED <<fatal, in_run, ret>>
    /\ UNCHANGED single_vars

\* amps[i].step() with result r
AmpStepped(i, r) ==
    /\ AmpStore(i, r.vm)
    /\ fatal' = r.err
    /\ ret' = IF r.err = NoErr THEN r.ret ELSE ret
    /\ last_op' = "step"
    /\ UNCHANGED in_run
    /\ UNCHANGED single_vars

AmpStep ==
    /\ Idle
    /\ \E i \in 1..Len(vms) : AmpStepped(i, step(Amp(i)))

\* one iteration of the loop of amps[i].run(), step() having the result r
AmpRunMatched(i, r, todo) ==
    /\ AmpStore(i, r.vm)
    /\ fatal' = IF r.err # NoErr THEN r.err
                ELSE IF todo = "panic" THEN "Invalid state after step()"
                ELSE NoErr
    /\ in_run' = (todo # "break")
    /\ ret' = IF todo = "break" THEN r.vm.state ELSE ret
    /\ last_op' = "run"
    /\ UNCHANGED single_vars

\* amps[i].run(): the first iteration of its loop
AmpRunCall ==
    /\ Idle
    /\ \E i \in 1..Len(vms) :
        AmpRunMatched(i, step(Amp(i)), RunTodo(step(Amp(i))))

\* the following iterations, of the Vm whose run() the driver is in
AmpRunLoop ==
    /\ Alive
    /\ in_run
    /\ AmpRunMatched(actor, step(Amp(actor)), RunTodo(step(Amp(actor))))

AmpNext ==
    AmpNew \/ AmpPush \/ AmpDrain \/ AmpStep \/ AmpRunCall \/ AmpRunLoop

SpecAmps == AmpInit /\ [][AmpNext]_vars

----------------------------------------------------------------------------
(* One program and one sequence of input values, given to two Vms: the first
   gets every value before its run() is called, as test_amp_circuit of day 7
   feeds its amps; the second gets a value only when its run() has returned
   WaitForInput with the port empty, as the loop of ArcadeCabinet::step and
   of test_amp_feedback_circuit feed theirs. *)

\* the instructions of the programs: Input in the three modes, Output, a
\* store, a base adjustment, a jump back to the start, a jump over an
\* instruction and Terminate
TimingInstructions ==
    { <<99>>, <<3, 0>>, <<3, 5>>, <<103, 0>>, <<203, 1>>, <<4, 0>>,
      <<204, -1>>, <<1101, 1, 1, 6>>, <<109, 1>>, <<1105, 1, 0>>,
      <<1005, 0, 0>> }

\* pairs of them, a program of two Inputs and two Outputs, and a program
\* that reads until it has read a 0 and writes what it read
TimingPrograms ==
    {a \o b : a \in TimingInstructions, b \in TimingInstructions}
      \cup { <<3, 0, 3, 1, 4, 0, 4, 1, 99>>,
             <<3, 9, 4, 9, 1005, 9, 0, 99>>,
             <<109, 1, 203, 8, 204, 8, 3, 0, 99>> }

\* the sequences of input values
TimingInputs == UNION {[1..n -> JoystickValues] : n \in 0..MaxPushes}

\* the Vm that gets its input before run(), and the one that gets it on
\* demand
Eager == 1
Lazy == 2

\* Vm::new(program.clone()) on the heap h, the allocations made in the order
\* clone, I::default(), O::default()
Vm_alloc_from(tape, input, output) ==
    [heap |-> output.heap,
     vm |-> Vm_new_at(tape.ref, input.ref, output.ref)]
Vm_alloc(h) ==
    Vm_alloc_from(Vec_clone(h, 1),
                  VecDeque_new(Vec_clone(h, 1).heap),
                  VecDeque_new(VecDeque_new(Vec_clone(h, 1).heap).heap))

\* the two Vms, made from the program
TimingInit ==
    /\ \E program \in TimingPrograms :
        /\ heap = Vm_alloc(Vm_alloc(<<program>>).heap).heap
        /\ vms = <<Vm_alloc(<<program>>).vm,
                   Vm_alloc(Vm_alloc(<<program>>).heap).vm>>
        /\ program_len = Len(program)
    /\ pushed \in TimingInputs
    /\ pushes = 0
    /\ actor = 0
    /\ fb = <<>>
    /\ opt = <<>>
    /\ memory = <<>>
    /\ instruction_pointer = 0
    /\ input_source = <<>>
    /\ output_sink = <<>>
    /\ state = "NotStarted"
    /\ relative_base = 0
    /\ fatal = NoErr
    /\ in_run = FALSE
    /\ ret = "NotStarted"
    /\ last_op = "new"
    /\ prev_state = "NotStarted"
    /\ last_set = <<>>
    /\ written = {}

\* what the drivers of the two Vms leave alone
timing_frame ==
    <<memory, instruction_pointer, input_source, output_sink, state,
      relative_base, prev_state, last_set, written, program_len, pushed,
      fb, opt>>

\* vm.input_source.push_back(v) for the next value, before the first run()
TimingPushAhead ==
    /\ Idle
    /\ vms[Eager].state = "NotStarted"
    /\ Len(Amp(Eager).input_source) < Len(pushed)
    /\ AmpStore(Eager, [Amp(Eager) EXCEPT !.input_source =
           Append(@, pushed[Len(Amp(Eager).input_source) + 1])])
    /\ last_op' = "push"
    /\ UNCHANGED <<fatal, in_run, ret, pushes>>
    /\ UNCHANGED timing_frame

\* vm.input_source.push_back(v) for the next value, after run() has
\* returned WaitForInput
TimingPushOnDemand ==
    /\ Idle
    /\ vms[Lazy].state = "WaitForInput"
    /\ Amp(Lazy).input_source = <<>>
    /\ pushes < Len(pushed)
    /\ AmpStore(Lazy, [Amp(Lazy) EXCEPT !.input_source =
           Append(@, pushed[pushes + 1])])
    /\ pushes' = pushes + 1
    /\ last_op' = "push"
    /\ UNCHANGED <<fatal, in_run, ret>>
    /\ UNCHANGED timing_frame

\* one iteration of the loop of vms[i].run(), within the bounds of the model
TimingRunIteration(i, r) ==
    /\ WithinBounds(r)
    /\ AmpRunMatched(i, r, RunTodo(r))

\* the only run() of the Vm that has all its input
TimingRunAhead ==
    /\ Idle
    /\ vms[Eager].state = "NotStarted"
    /\ Len(Amp(Eager).input_source) = Len(pushed)
    /\ TimingRunIteration(Eager, step(Amp(Eager)))

\* the first run() of the other Vm, and its run() after each push
TimingRunOnDemand ==
    /\ Idle
    /\ \/ vms[Lazy].state = "NotStarted"
       \/ vms[Lazy].state = "WaitForInput" /\ Amp(Lazy).input_source # <<>>
    /\ TimingRunIteration(Lazy, step(Amp(Lazy)))

\* the following iterations of the run() the driver is in
TimingRunLoop ==
    /\ Alive
    /\ in_run
    /\ TimingRunIteration(actor, step(Amp(actor)))

TimingNext ==
    \/ TimingPushAhead
    \/ TimingPushOnDemand
    \/ TimingRunAhead
    \/ TimingRunOnDemand
    \/ TimingRunLoop

SpecTiming == TimingInit /\ [][TimingNext]_vars

----------------------------------------------------------------------------
(* The Vm of day 7: its memory is the program vector, which never grows, it
   has the modes Position and Immediate only, and an index beyond the vector
   panics.  Line numbers are those of day7.rs. *)

\* ParamMode::read of day 7
Day7_ParamMode_read(instruction, param_num) ==
    CASE TruncRem(TruncDiv(instruction, Pow10(param_num + 1)), 10) = 0 ->
            Ok("Position")
      [] TruncRem(TruncDiv(instruction, Pow10(param_num + 1)), 10) = 1 ->
            Ok("Immediate")
      [] OTHER -> Panic("Unrecognized parameter mode digit")

\* an Operation: its opcode and the types of its parameters
Operation(op_code, parameters) ==
    [op_code |-> op_code, parameters |-> parameters]

\* Operation::read
Operation_read(instruction) ==
    CASE TruncRem(instruction, 100) = 1 ->
            Ok(Operation("Add", <<"Read", "Read", "Write">>))
      [] TruncRem(instruction, 100) = 2 ->
            Ok(Operation("Mul", <<"Read", "Read", "Write">>))
      [] TruncRem(instruction, 100) = 3 -> Ok(Operation("Input", <<"Write">>))
      [] TruncRem(instruction, 100) = 4 -> Ok(Operation("Output", <<"Read">>))
      [] TruncRem(instruction, 100) = 5 ->
            Ok(Operation("JumpIfTrue", <<"Read", "Read">>))
      [] TruncRem(instruction, 100) = 6 ->
            Ok(Operation("JumpIfFalse", <<"Read", "Read">>))
      [] TruncRem(instruction, 100) = 7 ->
            Ok(Operation("LessThan", <<"Read", "Read", "Write">>))
      [] TruncRem(instruction, 100) = 8 ->
            Ok(Operation("Equals", <<"Read", "Read", "Write">>))
      [] TruncRem(instruction, 100) = 99 -> Ok(Operation("Terminate", <<>>))
      [] OTHER -> Panic("Unknown opcode")

\* memory[index], index being a usize
Vec_index(vec, index) ==
    IF index.err # NoErr THEN index
    ELSE IF index.val >= Len(vec) THEN Panic("index out of bounds")
    ELSE Ok(vec[index.val + 1])

\* the match on mode of Operation::get_param_address
Operation_resolve(operation, vec, param_pointer, param_num, mode) ==
    IF mode.err # NoErr THEN mode
    ELSE CASE mode.val = "Position" ->
                IF vec[param_pointer + 1] < 0
                      \/ vec[param_pointer + 1] > Len(vec)
                THEN Panic("Cannot read address pointed to by parameter. Out of bounds.")
                ELSE Ok(vec[param_pointer + 1])
           [] mode.val = "Immediate" ->
                IF operation.parameters[param_num] = "Write"
                THEN Panic("Write parameter must not be in immediate mode")
                ELSE Ok(param_pointer)

\* Operation::get_param_address
Operation_get_param_address(operation, vec, ip, param_num) ==
    IF ip + param_num >= Len(vec)
    THEN Panic("Cannot read parameter. Out of bounds.")
    ELSE Operation_resolve(operation, vec, ip + param_num, param_num,
                           Day7_ParamMode_read(vec[ip + 1], param_num))

\* memory[param(n)]
Operation_read_param(operation, self, param_num) ==
    Vec_index(self.memory,
              Operation_get_param_address(operation, self.memory,
                                          self.instruction_pointer, param_num))

\* Some(ip + 1 + self.parameters.len())
Operation_next(operation, self) ==
    <<self.instruction_pointer + 1 + Len(operation.parameters)>>

\* memory[addr] = value, then the default advance
Operation_assign(operation, self, addr, value) ==
    IF addr >= Len(self.memory) THEN Panicked(self, "index out of bounds")
    ELSE Returned([self EXCEPT !.memory[addr + 1] = value],
                  Operation_next(operation, self), <<addr, value>>)

\* the arms Add, Mul, LessThan, Equals: the address of parameter 3, the
\* operands 1 and 2, then the assignment
Operation_store3(operation, self, addr, a, b) ==
    IF FirstErr(<<addr, a, b>>) # NoErr
    THEN Panicked(self, FirstErr(<<addr, a, b>>))
    ELSE Operation_assign(operation, self, addr.val,
                          result_value(operation.op_code, a.val, b.val))

\* the arm Input: the address of parameter 1, then input_source.read(), then
\* the assignment
Operation_input(operation, self, addr, value) ==
    IF FirstErr(<<addr, value>>) # NoErr
    THEN Panicked(self, FirstErr(<<addr, value>>))
    ELSE Operation_assign(operation,
                          [self EXCEPT !.input_source = value.rest],
                          addr.val, value.val)

\* the arm Output
Operation_output(operation, self, value) ==
    IF value.err # NoErr THEN Panicked(self, value.err)
    ELSE Returned([self EXCEPT !.output_sink = OutputSink_write(@, value.val)],
                  Operation_next(operation, self), <<>>)

\* the arms JumpIfTrue (on_true = TRUE) and JumpIfFalse (on_true = FALSE)
Operation_jump(operation, self, on_true, condition) ==
    IF condition.err # NoErr THEN Panicked(self, condition.err)
    ELSE IF (condition.val # 0) = on_true
    THEN jump_to(self, Operation_read_param(operation, self, 2))
    ELSE Returned(self, Operation_next(operation, self), <<>>)

\* Operation::execute
Operation_execute(operation, self) ==
    CASE operation.op_code \in {"Add", "Mul", "LessThan", "Equals"} ->
            Operation_store3(operation, self,
                Operation_get_param_address(operation, self.memory,
                                            self.instruction_pointer, 3),
                Operation_read_param(operation, self, 1),
                Operation_read_param(operation, self, 2))
      [] operation.op_code = "Input" ->
            Operation_input(operation, self,
                Operation_get_param_address(operation, self.memory,
                                            self.instruction_pointer, 1),
                InputSource_read(self.input_source))
      [] operation.op_code = "Output" ->
            Operation_output(operation, self,
                             Operation_read_param(operation, self, 1))
      [] operation.op_code = "JumpIfTrue" ->
            Operation_jump(operation, self, TRUE,
                           Operation_read_param(operation, self, 1))
      [] operation.op_code = "JumpIfFalse" ->
            Operation_jump(operation, self, FALSE,
                           Operation_read_param(operation, self, 1))
      [] operation.op_code = "Terminate" -> Returned(self, <<>>, <<>>)

\* Vm::new of day 7
Day7_Vm_new(program) ==
    [memory |-> program,
     instruction_pointer |-> 0,
     input_source |-> <<>>,
     output_sink |-> <<>>,
     state |-> "NotStarted"]

\* step() after the operation was read
Day7_step_decoded(self, operation) ==
    IF operation.err # NoErr
    THEN StepResult(operation.err, self, "", <<>>, "")
    ELSE IF operation.val.op_code = "Input"
              /\ InputSource_len(self.input_source) = 0
    THEN step_return([self EXCEPT !.state = "WaitForInput"], <<>>, "")
    ELSE step_executed(operation.val.op_code,
                       Operation_execute(operation.val, self))

\* step() after self.state = VmState::Running
Day7_step_started(self, word) ==
    IF word.err # NoErr THEN StepResult(word.err, self, "", <<>>, "")
    ELSE Day7_step_decoded(self, Operation_read(word.val))

\* Vm::step of day 7
Day7_step(self) ==
    Day7_step_started([self EXCEPT !.state = "Running"],
                      Vec_index(self.memory, Ok(self.instruction_pointer)))

\* while self.instruction_pointer < self.memory.len()
Day7_run_test(self) == self.instruction_pointer < Len(self.memory)

\* the instructions of the programs of day 7: every opcode in both modes,
\* stores onto the program, jumps taken and not taken, to the start, beyond
\* the end and to a negative address, a parameter that points beyond the
\* end, a Write parameter in Immediate mode, an unknown mode digit and words
\* that are no opcode
Day7Instructions ==
    { <<99>>,
      <<3, 0>>, <<3, 1>>, <<103, 0>>,
      <<4, 0>>, <<104, -1>>, <<204, 0>>,
      <<1, 0, 0, 0>>, <<1101, 1, 1, 0>>, <<1101, 1, 1, 3>>, <<11101, 1, 1, 0>>,
      <<1, 9, 0, 0>>, <<1002, 1, -1, 2>>,
      <<1105, 1, 0>>, <<1105, 1, 9>>, <<1105, 1, -1>>, <<1105, 0, 0>>,
      <<1106, 0, 3>>, <<1106, 1, 0>>, <<5, 1, 0>>,
      <<1107, 0, 1, 1>>, <<1108, 1, 1, 0>>,
      <<0>>, <<-1>> }

\* the empty program, one instruction, and two
Day7Programs ==
    {<<>>} \cup Day7Instructions
      \cup {a \o b : a \in Day7Instructions, b \in Day7Instructions}

\* the Vm of day 7 in the variables of the driver of one Vm
Day7Self ==
    [memory |-> memory,
     instruction_pointer |-> instruction_pointer,
     input_source |-> input_source,
     output_sink |-> output_sink,
     state |-> state]

\* the Vm's fields become those of the record vm; it has no relative base
Day7Store(vm) ==
    /\ memory' = vm.memory
    /\ instruction_pointer' = vm.instruction_pointer
    /\ input_source' = vm.input_source
    /\ output_sink' = vm.output_sink
    /\ state' = vm.state
    /\ UNCHANGED relative_base

\* the step stays within the bounds of the model
Day7WithinBounds(r) ==
    /\ Len(r.vm.output_sink) <= MaxOut
    /\ r.executed \in {"Add", "Mul"} /\ r.wrote # <<>>
           => r.wrote[2] \in -MaxValue..MaxValue

\* Vm::new(program)
Day7Init ==
    /\ \E program \in Day7Programs :
        /\ memory = Day7_Vm_new(program).memory
        /\ program_len = Len(program)
    /\ instruction_pointer = Day7_Vm_new(<<>>).instruction_pointer
    /\ input_source = Day7_Vm_new(<<>>).input_source
    /\ output_sink = Day7_Vm_new(<<>>).output_sink
    /\ state = Day7_Vm_new(<<>>).state
    /\ relative_base = 0
    /\ fatal = NoErr
    /\ in_run = FALSE
    /\ ret = "NotStarted"
    /\ last_op = "new"
    /\ prev_state = "NotStarted"
    /\ last_set = <<>>
    /\ written = {}
    /\ pushes = 0
    /\ pushed = <<>>
    /\ NoAmps

\* vm.step(), called by the driver, with result r
Day7Stepped(r) ==
    /\ Day7WithinBounds(r)
    /\ Day7Store(r.vm)
    /\ Record(r.wrote)
    /\ prev_state' = state
    /\ fatal' = r.err
    /\ ret' = IF r.err = NoErr THEN r.ret ELSE ret
    /\ last_op' = "step"
    /\ UNCHANGED <<in_run, program_len, pushes, pushed, amp_vars>>

Day7StepCall ==
    /\ Idle
    /\ Day7Stepped(Day7_step(Day7Self))

\* run() finds its loop test false and returns self.state
Day7RunReturns ==
    /\ ret' = state
    /\ in_run' = FALSE
    /\ last_op' = "run"
    /\ last_set' = <<>>
    /\ prev_state' = state
    /\ UNCHANGED <<memory, instruction_pointer, input_source, output_sink,
                   state, relative_base, fatal, written, program_len, pushes,
                   pushed, amp_vars>>

\* one iteration of the loop of run(): step() with result r, the match on
\* it selecting todo, and the loop test that follows unless the match breaks;
\* when the loop is left, run() returns self.state
Day7RunMatched(r, todo) ==
    /\ Day7WithinBounds(r)
    /\ Day7Store(r.vm)
    /\ Record(r.wrote)
    /\ prev_state' = state
    /\ fatal' = IF r.err # NoErr THEN r.err
                ELSE IF todo = "panic" THEN "Invalid state after step()"
                ELSE NoErr
    /\ in_run' = (todo = "panic" \/ (todo = "continue" /\ Day7_run_test(r.vm)))
    /\ ret' = IF todo = "break" \/ (todo = "continue" /\ ~Day7_run_test(r.vm))
              THEN r.vm.state ELSE ret
    /\ last_op' = "run"
    /\ UNCHANGED <<program_len, pushes, pushed, amp_vars>>

\* the driver calls vm.run()
Day7RunCall ==
    /\ Idle
    /\ IF Day7_run_test(Day7Self)
       THEN Day7RunMatched(Day7_step(Day7Self), RunTodo(Day7_step(Day7Self)))
       ELSE Day7RunReturns

\* the following iterations
Day7RunLoop ==
    /\ Alive
    /\ in_run
    /\ Day7RunMatched(Day7_step(Day7Self), RunTodo(Day7_step(Day7Self)))

Day7Next == Push \/ Day7StepCall \/ Day7RunCall \/ Day7RunLoop

SpecDay7 == Day7Init /\ [][Day7Next]_vars

----------------------------------------------------------------------------
(* test_amp_feedback_circuit of day 7.  The program vector is heap[1]; the
   Vms of amps are in vms, each with its own memory and ports; fb holds the
   locals of the function, its position pc, and what it has done so far:
   calls, the Vm and its status at each call of run(); fed and emitted, per
   Vm the values pushed into its input and taken from its output; ends, the
   status of the last Vm at the end of each round. *)

\* const AMP_COUNT: usize = 5
AMP_COUNT == 5

\* a loop that tests the first Vm
feedback_returns_first(amps) == amps[1].state = "Terminated"

\* amps[AMP_COUNT-1].state == VmState::Terminated
feedback_returns(amps) == amps[AMP_COUNT].state = "Terminated"

\* the example of the puzzle, which runs five rounds
FeedbackExample ==
    <<3, 26, 1001, 26, -4, 26, 3, 27, 1002, 27, 2, 27, 1, 27, 26, 27, 4, 27,
      1001, 28, -1, 28, 1005, 28, 6, 99, 0, 0, 5>>

\* a program that reads its phase setting p into cell 20, then p times reads
\* a signal and writes the signal plus 1
FeedbackCounter ==
    <<3, 20, 3, 21, 1001, 21, 1, 21, 4, 21, 1001, 20, -1, 20, 1005, 20, 2, 99,
      0, 0, 0, 0>>

\* the programs and phase settings the function is called with: the
\* example, the counter with every setting of 1 and 2 and with a setting
\* that is too short, a program that writes two values, one that writes
\* none, and one that runs off its end
FeedbackCalls ==
    {<<FeedbackExample, <<9, 8, 7, 6, 5>> >>,
     <<FeedbackExample, <<5, 6, 7, 8, 9>> >>,
     <<FeedbackCounter, <<1, 2>> >>,
     << <<3, 0, 3, 1, 4, 1, 4, 1, 99>>, <<5, 6, 7, 8, 9>> >>,
     << <<3, 0, 3, 1, 99>>, <<5, 6, 7, 8, 9>> >>,
     << <<3, 0, 3, 1, 4, 1>>, <<5, 6, 7, 8, 9>> >>}
      \cup {<<FeedbackCounter, p>> : p \in [1..AMP_COUNT -> {1, 2}]}

\* what test_amp_feedback_circuit leaves alone
feedback_frame ==
    <<memory, instruction_pointer, input_source, output_sink, state,
      relative_base, prev_state, last_set, written, program_len, pushes,
      pushed, heap, opt>>

\* the call test_amp_feedback_circuit(program, phase_setting), at
\* let mut amps = Vec::new()
FeedbackInit ==
    /\ \E call \in FeedbackCalls :
        /\ heap = <<call[1]>>
        /\ program_len = Len(call[1])
        /\ fb = [pc |-> "setup", i |-> 0, input |-> 0,
                 phase_setting |-> call[2], result |-> <<>>,
                 calls |-> <<>>,
                 fed |-> [k \in 1..AMP_COUNT |-> <<>>],
                 emitted |-> [k \in 1..AMP_COUNT |-> <<>>],
                 ends |-> <<>>]
    /\ vms = <<>>
    /\ actor = 0
    /\ opt = <<>>
    /\ memory = <<>>
    /\ instruction_pointer = 0
    /\ input_source = <<>>
    /\ output_sink = <<>>
    /\ state = "NotStarted"
    /\ relative_base = 0
    /\ fatal = NoErr
    /\ in_run = FALSE
    /\ ret = "NotStarted"
    /\ last_op = "new"
    /\ prev_state = "NotStarted"
    /\ last_set = <<>>
    /\ written = {}
    /\ pushes = 0
    /\ pushed = <<>>

\* the Vm the loops are at
FeedbackAmp == vms[fb.i + 1]

\* one iteration of the first loop, phase being phase_setting[i]:
\* amps.push(Vm::new(program.clone())), then the push of the phase setting
FeedbackSetupWith(phase) ==
    /\ vms' = Append(vms,
                     [Day7_Vm_new(heap[1]) EXCEPT !.input_source =
                         IF phase.err = NoErr THEN Append(@, phase.val) ELSE @])
    /\ fatal' = phase.err
    /\ fb' = IF phase.err # NoErr THEN fb
             ELSE [fb EXCEPT !.fed[fb.i + 1] = Append(@, phase.val),
                             !.i = IF fb.i + 1 < AMP_COUNT THEN fb.i + 1 ELSE 0,
                             !.pc = IF fb.i + 1 < AMP_COUNT THEN "setup" ELSE "feed"]
    /\ actor' = fb.i + 1
    /\ last_op' = "new"
    /\ UNCHANGED <<in_run, ret>>
    /\ UNCHANGED feedback_frame

FeedbackSetup ==
    /\ Idle
    /\ fb.pc = "setup"
    /\ FeedbackSetupWith(Vec_index(fb.phase_setting, Ok(fb.i)))

\* assert!(amps[i].state != VmState::Terminated), then
\* amps[i].input_source.push_back(input)
FeedbackFeed ==
    /\ Idle
    /\ fb.pc = "feed"
    /\ IF FeedbackAmp.state = "Terminated"
       THEN /\ fatal' = "assertion failed: amps[i].state != VmState::Terminated"
            /\ UNCHANGED <<vms, fb>>
       ELSE /\ vms' = [vms EXCEPT ![fb.i + 1].input_source = Append(@, fb.input)]
            /\ fb' = [fb EXCEPT !.fed[fb.i + 1] = Append(@, fb.input),
                                !.pc = "run"]
            /\ UNCHANGED fatal
    /\ actor' = fb.i + 1
    /\ last_op' = "push"
    /\ UNCHANGED <<in_run, ret>>
    /\ UNCHANGED feedback_frame

\* one iteration of the loop of amps[i].run(): step() with result r, the
\* match on it selecting todo, and the loop test that follows
FeedbackRunMatched(r, todo, called) ==
    /\ vms' = [vms EXCEPT ![fb.i + 1] = r.vm]
    /\ fatal' = IF r.err # NoErr THEN r.err
                ELSE IF todo = "panic" THEN "Invalid state after step()"
                ELSE NoErr
    /\ in_run' = (todo = "panic" \/ (todo = "continue" /\ Day7_run_test(r.vm)))
    /\ ret' = IF todo = "break" \/ (todo = "continue" /\ ~Day7_run_test(r.vm))
              THEN r.vm.state ELSE ret
    /\ fb' = [fb EXCEPT !.calls = @ \o called,
                        !.pc = IF todo = "break"
                                    \/ (todo = "continue" /\ ~Day7_run_test(r.vm))
                               THEN "collect" ELSE "run"]
    /\ actor' = fb.i + 1
    /\ last_op' = "run"
    /\ UNCHANGED feedback_frame

\* amps[i].run() finds its loop test false and returns
FeedbackRunReturns(called) ==
    /\ ret' = FeedbackAmp.state
    /\ fb' = [fb EXCEPT !.calls = @ \o called, !.pc = "collect"]
    /\ actor' = fb.i + 1
    /\ last_op' = "run"
    /\ UNCHANGED <<vms, fatal, in_run>>
    /\ UNCHANGED feedback_frame

\* the call amps[i].run()
FeedbackRunCall ==
    /\ Idle
    /\ fb.pc = "run"
    /\ IF Day7_run_test(FeedbackAmp)
       THEN FeedbackRunMatched(Day7_step(FeedbackAmp),
                               RunTodo(Day7_step(FeedbackAmp)),
                               <<[vm |-> fb.i, status |-> FeedbackAmp.state]>>)
       ELSE FeedbackRunReturns(<<[vm |-> fb.i, status |-> FeedbackAmp.state]>>)

\* the following iterations of its loop
FeedbackRunLoop ==
    /\ Alive
    /\ in_run
    /\ fb.pc = "run"
    /\ FeedbackRunMatched(Day7_step(FeedbackAmp),
                          RunTodo(Day7_step(FeedbackAmp)), <<>>)

\* input = amps[i].output_sink.pop_front().unwrap(), the end of the inner
\* loop's body; after the last Vm, the test that ends the outer loop
FeedbackTake(amps, value) ==
    /\ vms' = amps
    /\ fb' = IF fb.i + 1 < AMP_COUNT
             THEN [fb EXCEPT !.input = value,
                             !.emitted[fb.i + 1] = Append(@, value),
                             !.i = fb.i + 1,
                             !.pc = "feed"]
             ELSE [fb EXCEPT !.input = value,
                             !.emitted[fb.i + 1] = Append(@, value),
                             !.i = 0,
                             !.ends = Append(@, amps[AMP_COUNT].state),
                             !.pc = IF feedback_returns(amps)
                                    THEN "done" ELSE "feed",
                             !.result = IF feedback_returns(amps)
                                        THEN <<value>> ELSE <<>>]
    /\ UNCHANGED fatal

\* assert!(amps[i].output_sink.len() == 1), then the value is taken
FeedbackCollect ==
    /\ Idle
    /\ fb.pc = "collect"
    /\ IF Len(FeedbackAmp.output_sink) # 1
       THEN /\ fatal' = "assertion failed: amps[i].output_sink.len() == 1"
            /\ UNCHANGED <<vms, fb>>
       ELSE FeedbackTake([vms EXCEPT ![fb.i + 1].output_sink = Tail(@)],
                         Head(FeedbackAmp.output_sink))
    /\ actor' = fb.i + 1
    /\ last_op' = "drain"
    /\ UNCHANGED <<in_run, ret>>
    /\ UNCHANGED feedback_frame

FeedbackNext ==
    \/ FeedbackSetup
    \/ FeedbackFeed
    \/ FeedbackRunCall
    \/ FeedbackRunLoop
    \/ FeedbackCollect

SpecFeedback == FeedbackInit /\ [][FeedbackNext]_vars

----------------------------------------------------------------------------
(* next_permutation and optimize_phase_setting of day 7.  opt holds the
   locals of optimize_phase_setting, its position pc, the setting init it
   was called with, the build of the program, the settings it has handed to
   system so far (evaluated), and the argument and result of its last call
   of next_permutation (applied, result: <<>> is None, <<v>> is Some(v)). *)

\* the settings have at most this many elements, with values 1..MaxLen
MaxLen == 3

\* input.len() - 1 on usize: with overflow checks (the debug build) the
\* subtraction from 0 panics; without them (the release build) it wraps to
\* usize::MAX, suf > 0 holds and input[suf-1] is an index out of bounds
last_index(input, build) ==
    IF Len(input) > 0 THEN Ok(Len(input) - 1)
    ELSE IF build = "debug" THEN Panic("attempt to subtract with overflow")
    ELSE Panic("index out of bounds")

\* while suf > 0 && input[suf-1] >= input[suf] { suf -= 1 }
RECURSIVE longest_suffix(_, _)
longest_suffix(input, suf) ==
    IF suf > 0 /\ input[suf] >= input[suf + 1]
    THEN longest_suffix(input, suf - 1)
    ELSE suf

\* while input[swapi] <= input[pivot] { swapi -= 1 }
RECURSIVE rightmost_greater(_, _, _)
rightmost_greater(input, pivot, swapi) ==
    IF input[swapi + 1] <= input[pivot + 1]
    THEN rightmost_greater(input, pivot, swapi - 1)
    ELSE swapi

\* out.swap(a, b)
Vec_swap(out, a, b) == [out EXCEPT ![a + 1] = out[b + 1], ![b + 1] = out[a + 1]]

\* for i in 0..suf_len/2 { out.swap(suf + i, input.len() - 1 - i) }
RECURSIVE reverse_suffix(_, _, _, _)
reverse_suffix(out, suf, i, count) ==
    IF i < count
    THEN reverse_suffix(Vec_swap(out, suf + i, Len(out) - 1 - i), suf, i + 1,
                        count)
    ELSE out

\* the swap of the pivot, suf - 1, with swapi, then the reversal of the
\* suffix
permute(input, suf, swapi) ==
    reverse_suffix(Vec_swap(input, suf - 1, swapi), suf, 0,
                   (Len(input) - suf) \div 2)

\* next_permutation once the start suf of the longest weakly decreasing
\* suffix is known
next_from_suffix(input, suf) ==
    IF suf <= 0 THEN Ok(<<>>)
    ELSE Ok(<<permute(input, suf,
                      rightmost_greater(input, suf - 1, Len(input) - 1))>>)

next_from_last(input, last) ==
    IF last.err # NoErr THEN last
    ELSE next_from_suffix(input, longest_suffix(input, last.val))

\* next_permutation
next_permutation(input, build) ==
    next_from_last(input, last_index(input, build))

\* the settings optimize_phase_setting is called with
Settings == UNION {[1..n -> 1..MaxLen] : n \in 0..MaxLen}

\* the values system returns
SystemOutputs == {0, 1, 2}

\* the builds of the program
Builds == {"debug", "release"}

\* what optimize_phase_setting leaves alone
optimize_frame ==
    <<memory, instruction_pointer, input_source, output_sink, state,
      relative_base, in_run, ret, prev_state, last_set, written, program_len,
      pushes, pushed, heap, vms, actor, fb>>

\* the call optimize_phase_setting(program, init_phase_setting, system), at
\* its loop
OptimizeInit ==
    /\ \E init \in Settings, build \in Builds :
        opt = [pc |-> "loop", init |-> init, build |-> build,
               phase_setting |-> init, max_output |-> 0,
               max_phase_setting |-> init, evaluated |-> <<>>,
               applied |-> <<>>, result |-> <<>>]
    /\ heap = <<>>
    /\ vms = <<>>
    /\ actor = 0
    /\ fb = <<>>
    /\ memory = <<>>
    /\ program_len = 0
    /\ instruction_pointer = 0
    /\ input_source = <<>>
    /\ output_sink = <<>>
    /\ state = "NotStarted"
    /\ relative_base = 0
    /\ fatal = NoErr
    /\ in_run = FALSE
    /\ ret = "NotStarted"
    /\ last_op = "new"
    /\ prev_state = "NotStarted"
    /\ last_set = <<>>
    /\ written = {}
    /\ pushes = 0
    /\ pushed = <<>>

\* one iteration of the loop: system has returned output and
\* next_permutation(&phase_setting) has returned or raised next
OptimizeWith(output, next) ==
    /\ opt' = [opt EXCEPT
                 !.evaluated = Append(@, opt.phase_setting),
                 !.max_output = IF output > @ THEN output ELSE @,
                 !.max_phase_setting =
                     IF output > opt.max_output THEN opt.phase_setting ELSE @,
                 !.applied = <<opt.phase_setting>>,
                 !.result = IF next.err = NoErr THEN next.val ELSE @,
                 !.phase_setting =
                     IF next.err = NoErr /\ next.val # <<>> THEN next.val[1]
                     ELSE @,
                 !.pc = IF next.err = NoErr /\ next.val = <<>> THEN "done"
                        ELSE "loop"]
    /\ fatal' = next.err
    /\ last_op' = "optimize"
    /\ UNCHANGED optimize_frame

OptimizeIteration ==
    /\ Alive
    /\ opt.pc = "loop"
    /\ \E output \in SystemOutputs :
        OptimizeWith(output, next_permutation(opt.phase_setting, opt.build))

SpecOptimize == OptimizeInit /\ [][OptimizeIteration]_vars

----------------------------------------------------------------------------
(* Properties of suspension, resumption and termination *)

\* the transition is a step(): a call by the driver, or an iteration of run()
Steps == Alive /\ last_op' \in {"step", "run"}

\* the word at the instruction pointer and what it decodes to
Word == InfiniteTape_get(memory, instruction_pointer)
Decoded == OpCode_read(Word)

\* the mode digit of parameter param_num of the word at the instruction pointer
Digit(param_num) == (Word \div Pow10(param_num + 1)) % 10

\* the Vm has returned WaitForInput to the driver
Parked == Idle /\ state = "WaitForInput"

FrameUnchanged ==
    UNCHANGED <<memory, instruction_pointer, relative_base, input_source,
                output_sink>>

\* C1: a step() that finds an Input instruction at the instruction pointer
\* and the input port empty sets the status to WaitForInput, returns it, and
\* leaves the instruction pointer, the tape (cells and extent), the relative
\* base and both ports unchanged.
C1_SuspendChangesOnlyStatus ==
    [][Steps /\ Decoded = Ok("Input") /\ input_source = <<>>
         => /\ fatal' = NoErr
            /\ state' = "WaitForInput"
            /\ (last_op' = "step" \/ ~in_run') => ret' = "WaitForInput"
            /\ FrameUnchanged]_vars

C1_Witness ==
    /\ last_op = "step"
    /\ state = "WaitForInput"
    /\ ret = "WaitForInput"
    /\ input_source = <<>>
    /\ Decoded = Ok("Input")

\* C2: on a Vm parked in WaitForInput whose input port is empty and stays
\* empty, every call of run() (and every other operation) leaves the tape and
\* the instruction pointer as they are and the Vm parked, and run() returns
\* WaitForInput.
C2_RunParkedIdempotent ==
    [][Parked /\ input_source = <<>> /\ input_source' = <<>>
         => /\ fatal' = NoErr
            /\ memory' = memory
            /\ instruction_pointer' = instruction_pointer
            /\ state' = "WaitForInput"
            /\ last_op' = "run" => ~in_run' /\ ret' = "WaitForInput"]_vars

\* run() was called on a Vm that was parked and never got any input
C2_Witness ==
    /\ last_op = "run"
    /\ prev_state = "WaitForInput"
    /\ pushes = 0
    /\ ~in_run
    /\ ret = "WaitForInput"

\* C3: when run() has returned, the value it returned equals the stored
\* status and is WaitForInput or Terminated; as long as step() returns
\* Running, run() stays in its loop.
C3_RunReturnsSuspendPoint ==
    last_op = "run" /\ Alive
        => IF in_run
           THEN state = "Running"
           ELSE ret = state /\ state \in {"WaitForInput", "Terminated"}

\* run() returned Terminated from an instruction reached by its loop
C3_Witness ==
    /\ last_op = "run"
    /\ Alive
    /\ ~in_run
    /\ prev_state = "Running"
    /\ ret = "Terminated"
    /\ instruction_pointer > 0
    /\ pushes = 0

\* the address parameter 1 of the Input instruction at the instruction
\* pointer resolves to, for the mode digits 0 and 2
InputTarget ==
    IF Digit(1) = 0
    THEN InfiniteTape_get(memory, instruction_pointer + 1)
    ELSE InfiniteTape_get(memory, instruction_pointer + 1) + relative_base

\* C4: when a parked Vm has got input, the next step() (called directly or
\* as the first iteration of run()) finds the same Input instruction at the
\* instruction pointer, removes exactly the front value v of the port, stores
\* v at the address of parameter 1 and changes no other cell, and advances the
\* instruction pointer by 2.  The only other outcome is the fatal error of a
\* parameter that does not resolve (mode digit not 0 or 2, negative address),
\* which changes nothing.
C4_ResumeExecutesTheInput ==
    [][Parked /\ input_source # <<>> /\ Steps
         => /\ Decoded = Ok("Input")
            /\ IF Digit(1) \in {0, 2} /\ InputTarget >= 0
               THEN /\ fatal' = NoErr
                    /\ input_source' = Tail(input_source)
                    /\ instruction_pointer' = instruction_pointer + 2
                    /\ last_set' = <<InputTarget, Head(input_source)>>
                    /\ InfiniteTape_get(memory', InputTarget) = Head(input_source)
                    /\ \A a \in 0..(Len(memory') + 1) :
                           a # InputTarget
                               => InfiniteTape_get(memory', a) = InfiniteTape_get(memory, a)
                    /\ UNCHANGED <<relative_base, output_sink>>
               ELSE /\ fatal' # NoErr
                    /\ FrameUnchanged]_vars

\* a step() on a parked Vm has stored an input value
C4_Witness ==
    /\ last_op = "step"
    /\ prev_state = "WaitForInput"
    /\ Alive
    /\ last_set # <<>>
    /\ state = "Running"
    /\ instruction_pointer >= 2
    /\ InfiniteTape_get(memory, last_set[1]) = last_set[2]

\* C5: once step() or run() has returned Terminated, every later step() or
\* run() returns Terminated again and leaves the tape, the instruction
\* pointer, the relative base and both ports unchanged.
C5_TerminatedIsAbsorbing ==
    [][Idle /\ state = "Terminated" /\ Steps
         => /\ fatal' = NoErr
            /\ state' = "Terminated"
            /\ ~in_run'
            /\ ret' = "Terminated"
            /\ FrameUnchanged]_vars

\* step() or run() was called on a Vm that had terminated
C5_Witness ==
    /\ last_op \in {"step", "run"}
    /\ prev_state = "Terminated"
    /\ state = "Terminated"
    /\ ret = "Terminated"

----------------------------------------------------------------------------
(* Properties of the tape *)

\* C6: every address at or beyond the end of the program image that was
\* never the index of a set reads 0: the addresses up to the extent of the
\* tape, those just beyond it, and the one 10,000 beyond the program image.
C6_UnwrittenReadsZero ==
    \A a \in (0..(Len(memory) + 1)) \cup {program_len + 10000} :
        a >= program_len /\ a \notin written => InfiniteTape_get(memory, a) = 0

\* the tape has grown over a cell that was never written
C6_Witness ==
    \E a \in program_len..(Len(memory) - 1) :
        /\ a \notin written
        /\ InfiniteTape_get(memory, a) = 0
        /\ \E b \in written : b > a /\ InfiniteTape_get(memory, b) # 0

\* C7: no transition shortens the tape, and every cell below the old extent
\* that is not the index of the transition's set keeps its value.
C7_ExtentNeverShrinks ==
    [][/\ Len(memory') >= Len(memory)
       /\ \A i \in 1..Len(memory) :
              (last_set' = <<>> \/ last_set'[1] # i - 1) => memory'[i] = memory[i]]_vars

\* a step has stored inside the extent of a tape that never grew
C7_Witness ==
    /\ last_op \in {"step", "run"}
    /\ last_set # <<>>
    /\ last_set[1] + 1 < Len(memory)
    /\ Len(memory) = program_len

\* C8: a set at or beyond the extent makes the extent index + 1, the new
\* cells below index 0, cell index the value, and keeps the cells below the
\* old extent; a set inside the extent changes cell index only.
C8_SetGrowsExactly ==
    [][last_set' # <<>>
         => IF last_set'[1] >= Len(memory)
            THEN /\ Len(memory') = last_set'[1] + 1
                 /\ \A i \in (Len(memory) + 1)..last_set'[1] : memory'[i] = 0
                 /\ memory'[last_set'[1] + 1] = last_set'[2]
                 /\ \A i \in 1..Len(memory) : memory'[i] = memory[i]
            ELSE /\ Len(memory') = Len(memory)
                 /\ memory'[last_set'[1] + 1] = last_set'[2]
                 /\ \A i \in 1..Len(memory) :
                        i # last_set'[1] + 1 => memory'[i] = memory[i]]_vars

\* a set has grown the tape by more than one cell
C8_Witness ==
    /\ last_set # <<>>
    /\ last_set[1] > program_len
    /\ Len(memory) = last_set[1] + 1
    /\ memory[Len(memory)] = last_set[2]
    /\ last_set[2] # 0

----------------------------------------------------------------------------
(* Properties of the relative base and of Write parameters *)

\* the step() of this transition hands an instruction to execute_operation
Executes ==
    /\ Steps
    /\ Decoded.err = NoErr
    /\ ~(Decoded.val = "Input" /\ input_source = <<>>)

\* C9: the relative base is never negative, and an AdjustRelativeBase whose
\* sum relative_base + read(1) is negative fails fatally and leaves the
\* relative base (and everything but the status) as it was.
C9_RelativeBaseNonNegative ==
    [][/\ relative_base >= 0
       /\ relative_base' >= 0
       /\ (/\ Executes
           /\ Decoded.val = "AdjustRelativeBase"
           /\ get_param(Self, "AdjustRelativeBase", 1).err = NoErr
           /\ relative_base + get_param(Self, "AdjustRelativeBase", 1).val < 0)
           => /\ fatal' = "Invalid new relative base"
              /\ FrameUnchanged]_vars

\* an adjustment below zero has failed
C9_Witness ==
    /\ fatal = "Invalid new relative base"
    /\ Decoded = Ok("AdjustRelativeBase")
    /\ relative_base + get_param(Self, "AdjustRelativeBase", 1).val < 0

\* the instruction at the instruction pointer has a Write parameter whose
\* mode digit is 1
HasWriteImmediate ==
    \/ Decoded.val \in {"Add", "Mul", "LessThan", "Equals"} /\ Digit(3) = 1
    \/ Decoded.val = "Input" /\ Digit(1) = 1

\* C10: an executed instruction fails with the error of a Write parameter in
\* Immediate mode exactly if parameter 3 of Add, Mul, LessThan, Equals or
\* parameter 1 of Input has mode digit 1, and then no cell is written; a Read
\* parameter in Immediate mode never raises it.
C10_WriteImmediateIsFatal ==
    [][Executes
         => /\ HasWriteImmediate
                <=> fatal' = "Write parameter must not be in immediate mode"
            /\ HasWriteImmediate => memory' = memory /\ last_set' = <<>>]_vars

\* an Add with parameter 3 in Immediate mode has failed
C10_Witness ==
    /\ fatal = "Write parameter must not be in immediate mode"
    /\ Decoded = Ok("Add")
    /\ Digit(3) = 1
    /\ Digit(1) = 1

----------------------------------------------------------------------------
(* Properties of decoding and of parameter resolution *)

\* the raw value of parameter param_num of the instruction at the
\* instruction pointer
Raw(param_num) == InfiniteTape_get(memory, instruction_pointer + param_num)

\* the number of parameters of each opcode, as the specification lists them
Arity ==
    [Add |-> 3, Mul |-> 3, LessThan |-> 3, Equals |-> 3,
     JumpIfTrue |-> 2, JumpIfFalse |-> 2,
     Input |-> 1, Output |-> 1, AdjustRelativeBase |-> 1,
     Terminate |-> 0]

\* the instruction at the instruction pointer is a jump whose condition,
\* read from parameter 1, holds
JumpTaken ==
    /\ Decoded.val \in {"JumpIfTrue", "JumpIfFalse"}
    /\ get_param(Self, Decoded.val, 1).err = NoErr
    /\ (get_param(Self, Decoded.val, 1).val # 0) = (Decoded.val = "JumpIfTrue")

\* execute_operation resolves parameter param_num of the instruction at the
\* instruction pointer: each parameter of the opcode, but the target of a
\* jump only if the jump is taken
Resolves(param_num) ==
    /\ param_num \in 1..Arity[Decoded.val]
    /\ (Decoded.val \in {"JumpIfTrue", "JumpIfFalse"} /\ param_num = 2) => JumpTaken

\* parameter param_num is in Position mode with a negative raw value, or in
\* Relative mode with a negative sum of raw value and relative base
NegativeAddress(param_num) ==
    \/ Digit(param_num) = 0 /\ Raw(param_num) < 0
    \/ Digit(param_num) = 2 /\ Raw(param_num) + relative_base < 0

\* C11: resolving a Position parameter whose raw value is negative, or a
\* Relative parameter whose raw value plus the relative base is negative,
\* fails with "Invalid address"; an executed instruction that resolves such a
\* parameter fails fatally and changes nothing but the status; that error is
\* raised by such a parameter only; and no cell of negative index, hence none
\* at a wrapped address, is ever written.
C11_NegativeAddressIsFatal ==
    [][Executes
         => /\ \A n \in 1..3 :
                  Resolves(n) /\ NegativeAddress(n)
                    => /\ get_param_address(Self, Decoded.val, n).err = "Invalid address"
                       /\ get_param(Self, Decoded.val, n).err = "Invalid address"
                       /\ fatal' # NoErr
                       /\ FrameUnchanged
                       /\ last_set' = <<>>
            /\ fatal' = "Invalid address"
                 => \E n \in 1..3 : Resolves(n) /\ NegativeAddress(n)
            /\ last_set' # <<>> => last_set'[1] >= 0]_vars

\* an Output whose parameter is in Relative mode, with a negative sum of raw
\* value and relative base, has failed
C11_Witness ==
    /\ fatal = "Invalid address"
    /\ Decoded = Ok("Output")
    /\ Digit(1) = 2
    /\ Raw(1) + relative_base < 0

\* the opcode the specification's table gives for the word at the
\* instruction pointer: the remainder by 100, negative for a negative word
Remainder == IF Word >= 0 THEN Word % 100 ELSE 0 - ((0 - Word) % 100)
TableOpCode ==
    CASE Remainder = 1 -> "Add"
      [] Remainder = 2 -> "Mul"
      [] Remainder = 3 -> "Input"
      [] Remainder = 4 -> "Output"
      [] Remainder = 5 -> "JumpIfTrue"
      [] Remainder = 6 -> "JumpIfFalse"
      [] Remainder = 7 -> "LessThan"
      [] Remainder = 8 -> "Equals"
      [] Remainder = 9 -> "AdjustRelativeBase"
      [] Remainder = 99 -> "Terminate"
      [] OTHER -> "Unknown"

\* C12: a step() decodes the word at the instruction pointer by its remainder
\* by 100, truncated toward zero; a remainder that is none of 1..9, 99 (that
\* of the word 0 and of every negative word among them) makes the step fail
\* with "Unknown opcode", the status marker Running and nothing else changed;
\* any other word is decoded as the table says, and the step ends the
\* program exactly if the remainder is 99.
C12_OpcodeIsRemainderBy100 ==
    [][Steps
         => /\ Word <= 0 => TableOpCode = "Unknown"
            /\ IF TableOpCode = "Unknown"
               THEN /\ fatal' = "Unknown opcode"
                    /\ state' = "Running"
                    /\ FrameUnchanged
                    /\ last_set' = <<>>
               ELSE /\ Decoded = Ok(TableOpCode)
                    /\ fatal' # "Unknown opcode"
                    /\ (state' = "Terminated") <=> (TableOpCode = "Terminate")]_vars

\* a step() has failed on a negative word
C12_Witness ==
    /\ fatal = "Unknown opcode"
    /\ state = "Running"
    /\ Word < 0

\* C13: an executed instruction that has, at one of the parameter positions
\* 1..arity of its opcode, a mode digit other than 0, 1 and 2 fails fatally.
C13_UnknownModeDigitIsFatal ==
    [][Executes
         => \A n \in 1..Arity[Decoded.val] :
               Digit(n) \notin {0, 1, 2} => fatal' # NoErr]_vars

----------------------------------------------------------------------------
(* Properties of the instructions' effects *)

\* the address the specification gives parameter param_num of the
\* instruction at the instruction pointer, by its mode digit
ModeAddress(param_num) ==
    CASE Digit(param_num) = 0 -> Raw(param_num)
      [] Digit(param_num) = 1 -> instruction_pointer + param_num
      [] Digit(param_num) = 2 -> Raw(param_num) + relative_base

\* the parameters of the instruction at the instruction pointer, as
\* execute_operation resolves and reads them
Address(param_num) == get_param_address(Self, Decoded.val, param_num)
Read(param_num) == get_param(Self, Decoded.val, param_num)

\* the step() of this transition executes an instruction of one of the
\* opcodes ops and returns
Completes(ops) == Executes /\ Decoded.val \in ops /\ fatal' = NoErr

\* the tape after the transition is the tape before it with value at index
StoredAt(index, value) ==
    /\ last_set' = <<index, value>>
    /\ InfiniteTape_get(memory', index) = value
    /\ Len(memory') > index
    /\ \A i \in 0..(Len(memory') - 1) :
          i # index => InfiniteTape_get(memory', i) = InfiniteTape_get(memory, i)

\* C14: for each parameter of a decoded instruction that resolves without a
\* fatal error, get_param_address returns the raw value at ip + n in Position
\* mode (digit 0), ip + n in Immediate mode (digit 1, so that the value read
\* is the raw value itself) and the raw value plus the relative base in
\* Relative mode (digit 2); the cell a step writes is the one at that address.
C14_AddressByMode ==
    [][Steps /\ Decoded.err = NoErr
         => /\ \A n \in 1..Arity[Decoded.val] :
                  Address(n).err = NoErr
                    => /\ Digit(n) \in {0, 1, 2}
                       /\ Address(n).val = ModeAddress(n)
                       /\ Read(n) = Ok(InfiniteTape_get(memory, ModeAddress(n)))
                       /\ Digit(n) = 1 => Read(n).val = Raw(n)
            /\ last_set' # <<>>
                 => last_set'[1] = ModeAddress(Arity[Decoded.val])]_vars

\* a Mul at address 2 has stored through its parameter 3 in Relative mode,
\* the relative base being 1
C14_Witness ==
    /\ last_op \in {"step", "run"}
    /\ relative_base = 1
    /\ instruction_pointer = 6
    /\ InfiniteTape_get(memory, 2) = 21102
    /\ last_set = <<InfiniteTape_get(memory, 5) + relative_base, -2>>

\* C15: a step() that executes an instruction other than Terminate and other
\* than a taken jump, and returns, leaves the instruction pointer at
\* ip + 1 + arity, the arity being that of the opcode decoded before the
\* effect.
C15_DefaultAdvance ==
    [][Executes /\ fatal' = NoErr /\ Decoded.val # "Terminate" /\ ~JumpTaken
         => instruction_pointer' = instruction_pointer + 1 + Arity[Decoded.val]]_vars

\* an Input at address 0 has stored the word of an Add over its own
\* instruction word, and the instruction pointer is 2
C15_Witness ==
    /\ last_op \in {"step", "run"}
    /\ last_set = <<0, 1>>
    /\ InfiniteTape_get(memory, 0) = 1
    /\ instruction_pointer = 2
    /\ pushed # <<>>

\* C16: a JumpIfTrue is taken exactly if read(1) # 0 and a JumpIfFalse exactly
\* if read(1) = 0; a jump taken sets the instruction pointer to read(2), and
\* fails with "Cannot jump to negative address" if read(2) is negative; a
\* jump not taken sets it to ip + 3; either way the tape, the relative base
\* and the ports stay as they were.
C16_Jumps ==
    [][Executes /\ Decoded.val \in {"JumpIfTrue", "JumpIfFalse"}
         => /\ UNCHANGED <<memory, relative_base, input_source, output_sink>>
            /\ last_set' = <<>>
            /\ Read(1).err = NoErr
                 => /\ (JumpTaken /\ Read(2).err = NoErr /\ Read(2).val >= 0)
                         => fatal' = NoErr /\ instruction_pointer' = Read(2).val
                    /\ (JumpTaken /\ Read(2).err = NoErr /\ Read(2).val < 0)
                         => /\ fatal' = "Cannot jump to negative address"
                            /\ instruction_pointer' = instruction_pointer
                    /\ ~JumpTaken
                         => /\ fatal' = NoErr
                            /\ instruction_pointer' = instruction_pointer + 3]_vars

\* the JumpIfFalse at address 0, reading 0, has set the instruction pointer
\* to its target 2
C16_Witness ==
    /\ last_op \in {"step", "run"}
    /\ fatal = NoErr
    /\ InfiniteTape_get(memory, 0) = 1106
    /\ InfiniteTape_get(memory, 1) = 0
    /\ instruction_pointer = 2
    /\ written = {}

\* C17: an Add that returns stores read(1) + read(2), a Mul read(1) * read(2),
\* at the address of parameter 3, the operands being read from the tape
\* before the store; no other cell changes.
C17_AddMulStore ==
    [][/\ Completes({"Add"})
           => StoredAt(ModeAddress(3), Read(1).val + Read(2).val)
       /\ Completes({"Mul"})
           => StoredAt(ModeAddress(3), Read(1).val * Read(2).val)]_vars

\* the Mul at address 0 has stored the product of 2 and -1 over its own
\* second operand
C17_Witness ==
    /\ last_op \in {"step", "run"}
    /\ InfiniteTape_get(memory, 0) = 21102
    /\ InfiniteTape_get(memory, 1) = 2
    /\ instruction_pointer = 4
    /\ last_set = <<2, -2>>

\* C18: a LessThan that returns stores 1 at the address of parameter 3 if
\* read(1) < read(2) and 0 otherwise, an Equals 1 if read(1) = read(2) and 0
\* otherwise, the operands being signed; no other cell changes.
C18_CompareStore ==
    [][/\ Completes({"LessThan"})
           => StoredAt(ModeAddress(3), IF Read(1).val < Read(2).val THEN 1 ELSE 0)
       /\ Completes({"Equals"})
           => StoredAt(ModeAddress(3), IF Read(1).val = Read(2).val THEN 1 ELSE 0)
       /\ Completes({"LessThan", "Equals"}) => last_set'[2] \in {0, 1}]_vars

\* the LessThan at address 0 has compared 1 with -1 and stored 0
C18_Witness ==
    /\ last_op \in {"step", "run"}
    /\ InfiniteTape_get(memory, 0) = 1107
    /\ InfiniteTape_get(memory, 2) = -1
    /\ instruction_pointer = 4
    /\ last_set = <<1, 0>>

\* the number of values the Vm has taken from its input port
Consumed == Len(pushed) - Len(input_source)

\* C19: the pending input is what was pushed less the values consumed, in
\* the order of the pushes; an Input that returns stores the value at the
\* front, which is the next of the values ever pushed, and removes exactly
\* that one; a step() of any other kind leaves the input port as it was.
C19_InputIsFifo ==
    [][/\ Consumed >= 0
       /\ input_source = SubSeq(pushed, Consumed + 1, Len(pushed))
       /\ Steps
            => IF Completes({"Input"})
               THEN /\ last_set' = <<ModeAddress(1), pushed[Consumed + 1]>>
                    /\ input_source' = Tail(input_source)
                    /\ pushed' = pushed
               ELSE input_source' = input_source]_vars

\* two Inputs have stored the two values pushed, which differ, in the order
\* of the pushes
C19_Witness ==
    /\ last_op \in {"step", "run"}
    /\ Len(pushed) = 2
    /\ pushed[1] # pushed[2]
    /\ input_source = <<>>
    /\ InfiniteTape_get(memory, 0) = pushed[1]
    /\ last_set = <<5, pushed[2]>>

\* C20: an Output that returns appends read(1) at the back of the output
\* port and leaves the values before it as they were; a step() of any other
\* kind leaves the output port as it was.
C20_OutputAppends ==
    [][Steps
         => IF Completes({"Output"})
            THEN output_sink' = Append(output_sink, Read(1).val)
            ELSE output_sink' = output_sink]_vars

\* two Outputs have written two values that differ, the second behind the
\* first
C20_Witness ==
    /\ last_op \in {"step", "run"}
    /\ output_sink = <<InfiniteTape_get(memory, 0), -1>>
    /\ InfiniteTape_get(memory, 0) = 4
    /\ instruction_pointer = 4

----------------------------------------------------------------------------
(* Properties of Terminate and of construction *)

\* C21: a step() that decodes Terminate returns with the status Terminated
\* and leaves the instruction pointer on the Terminate word, and the tape,
\* the relative base and both ports as they were, whatever the digits of the
\* word above the opcode are.
C21_TerminateChangesOnlyStatus ==
    [][Steps /\ Decoded = Ok("Terminate")
         => /\ fatal' = NoErr
            /\ state' = "Terminated"
            /\ FrameUnchanged
            /\ Word' = Word
            /\ last_set' = <<>>]_vars

\* a step() has ended the program on a Terminate word whose digit for
\* parameter 1 is no mode
C21_Witness ==
    /\ last_op \in {"step", "run"}
    /\ fatal = NoErr
    /\ state = "Terminated"
    /\ Word = 399
    /\ Digit(1) = 3

\* C22: the Vm that Vm::new returns for a program has the program as its
\* tape, the instruction pointer 0, the relative base 0, the status
\* NotStarted and empty ports; so has the Vm of the model before the driver
\* has acted on it.
C22_FreshVm ==
    last_op = "new"
      => /\ memory \in Programs
         /\ Len(memory) = program_len
         /\ instruction_pointer = 0
         /\ relative_base = 0
         /\ state = "NotStarted"
         /\ input_source = <<>>
         /\ output_sink = <<>>
         /\ fatal = NoErr
         /\ \A program \in Programs :
               Vm_new(program) = [memory |-> program,
                                  instruction_pointer |-> 0,
                                  input_source |-> <<>>,
                                  output_sink |-> <<>>,
                                  state |-> "NotStarted",
                                  relative_base |-> 0]

\* the Vm constructed from the program [3, 0, 4, 0, 99], before any call
C22_Witness ==
    /\ last_op = "new"
    /\ memory = <<3, 0, 4, 0, 99>>
    /\ state = "NotStarted"

----------------------------------------------------------------------------
(* Properties of the status *)

\* C26, as the specification states it: after step() or run() has returned,
\* the status is WaitForInput or Terminated.
C26_OnlyWaitOrTerminated ==
    (Idle /\ last_op \in {"step", "run"})
        => state \in {"WaitForInput", "Terminated"}

\* C26, amended: after run() has returned the status is WaitForInput or
\* Terminated; after step() has returned it is Running, WaitForInput or
\* Terminated, and it is the value step() returned.
C26_ObservableStatus ==
    /\ (Idle /\ last_op = "run") => state \in {"WaitForInput", "Terminated"}
    /\ (Idle /\ last_op = "step")
         => /\ state \in {"Running", "WaitForInput", "Terminated"}
            /\ ret = state

\* step() has executed an instruction that stored a value and has returned
\* Running
C26_Witness ==
    /\ Idle
    /\ last_op = "step"
    /\ last_set # <<>>
    /\ ret = "Running"
    /\ state = "Running"

\* C27: no step() fails by reading an empty input port: an Input is handed
\* to execute_operation only with a value pending.
C27_EmptyReadUnreachable ==
    [][/\ fatal' # "InputSource VecDeque is empty!"
       /\ (Executes /\ Decoded.val = "Input") => input_source # <<>>
       /\ (Steps /\ Decoded = Ok("Input") /\ input_source = <<>>)
            => fatal' = NoErr /\ state' = "WaitForInput"]_vars

\* run() has come to an Input by its loop, found the port empty and returned
C27_Witness ==
    /\ Idle
    /\ last_op = "run"
    /\ prev_state = "Running"
    /\ state = "WaitForInput"
    /\ Decoded = Ok("Input")
    /\ input_source = <<>>
    /\ instruction_pointer > 0

\* the status a step() on the instruction at the instruction pointer ends in
StatusOf ==
    IF Decoded.val = "Input" /\ input_source = <<>> THEN "WaitForInput"
    ELSE IF Decoded.val = "Terminate" THEN "Terminated"
    ELSE "Running"

\* C29: a step() that returns leaves the status WaitForInput exactly if the
\* decoded opcode is Input and the input port is empty, Terminated exactly
\* if it is Terminate, and Running otherwise; the value step() returns to
\* the driver is the stored status.
C29_StepStatus ==
    [][(Steps /\ fatal' = NoErr)
         => /\ state' = StatusOf
            /\ last_op' = "step" => ret' = state']_vars

\* step() has returned Terminated to the driver
C29_Witness ==
    /\ Idle
    /\ last_op = "step"
    /\ ret = "Terminated"
    /\ state = "Terminated"
    /\ Decoded = Ok("Terminate")

\* C30: a step() never leaves the status NotStarted, also when it fails; the
\* status never becomes NotStarted again; and run() never fails with
\* "Invalid state after step()".
C30_NotStartedOnlyBeforeFirstStep ==
    [][/\ Steps => state' # "NotStarted"
       /\ state' = "NotStarted" => state = "NotStarted"
       /\ state = "NotStarted" => last_op \in {"new", "poke", "push"}
       /\ fatal' # "Invalid state after step()"]_vars

\* the first step() of a Vm has failed, and the status is Running
C30_Witness ==
    /\ fatal # NoErr
    /\ prev_state = "NotStarted"
    /\ state = "Running"
    /\ instruction_pointer = 0

----------------------------------------------------------------------------
(* Properties of the example programs *)

\* run() has returned to the driver of the example whose program is program
Ran(program) == Idle /\ last_op = "run" /\ program_len = Len(program)

\* C23: the program that writes itself never fails, and when run() returns
\* from it with no value pushed, the status is Terminated, the output port
\* holds the 16 words of the program in order, and the cells 100 and 101,
\* beyond the 16 cells of the program, have been written and the tape
\* reaches to them.
C23_QuineWritesItself ==
    /\ program_len = Len(Quine) => fatal = NoErr
    /\ (Ran(Quine) /\ pushed = <<>>)
         => /\ state = "Terminated"
            /\ ret = "Terminated"
            /\ output_sink = Quine
            /\ Len(output_sink) = 16
            /\ SubSeq(memory, 1, 16) = Quine
            /\ {100, 101} \subseteq written
            /\ Len(memory) = 102
            /\ InfiniteTape_get(memory, 100) = 16
            /\ InfiniteTape_get(memory, 101) = 1

\* run() has returned from the program that writes itself
C23_Witness ==
    /\ Ran(Quine)
    /\ pushed = <<>>
    /\ output_sink = Quine
    /\ state = "Terminated"

\* C24: when run() returns from the program [3,0,4,0,99] with the single
\* value 7 pushed, the status is Terminated, the output port holds 7 alone
\* and the input port is empty.
C24_EchoOfSeven ==
    (Ran(Echo) /\ pushed = <<7>>)
        => /\ fatal = NoErr
           /\ state = "Terminated"
           /\ ret = "Terminated"
           /\ output_sink = <<7>>
           /\ input_source = <<>>

\* run() has returned from the program [3,0,4,0,99] with 7 pushed
C24_Witness ==
    /\ Ran(Echo)
    /\ pushed = <<7>>
    /\ output_sink = <<7>>

\* C25: when run() returns from the program [3,9,8,9,10,9,4,9,99,-1,8] with a
\* single value pushed, the status is Terminated and the output port holds 1
\* alone if the value is 8 and 0 alone otherwise.
C25_EqualsEight ==
    (Ran(EqualsEight) /\ Len(pushed) = 1)
        => /\ fatal = NoErr
           /\ state = "Terminated"
           /\ output_sink = <<IF pushed[1] = 8 THEN 1 ELSE 0>>

\* run() has returned from that program with 5 pushed, and the output is 0
C25_Witness ==
    /\ Ran(EqualsEight)
    /\ pushed = <<5>>
    /\ output_sink = <<0>>
    /\ state = "Terminated"

----------------------------------------------------------------------------
(* Properties of several Vms *)

\* C28: a transition of the driver of several Vms, be it a step() or an
\* iteration of run(), a push to the input port, a removal from the output
\* port or the construction of a further Vm, changes the tape, the
\* instruction pointer, the relative base, the status and the ports of no Vm
\* but the one it acts on; the Vms are made from one program vector.
C28_VmsIndependent ==
    [][/\ Len(vms') >= Len(vms)
       /\ \A j \in 1..Len(vms) :
             j # actor' => Deref(heap', vms'[j]) = Deref(heap, vms[j])]_vars

\* of two Vms made from one program vector, the first has run to its end and
\* changed its tape, and the second is as it was made
C28_Witness ==
    /\ Len(vms) = 2
    /\ Amp(1).state = "Terminated"
    /\ Amp(1).relative_base = 1
    /\ Amp(1).memory # heap[1]
    /\ Amp(2) = Vm_new(heap[1])

----------------------------------------------------------------------------
(* Properties of reads beyond the extent, of failing steps and of frames *)

\* parameter param_num of the instruction at the instruction pointer is
\* resolved, and its raw value or the cell it names as a Read parameter lies
\* at or beyond the extent of the tape
ReadBeyond(param_num) ==
    /\ Resolves(param_num)
    /\ \/ instruction_pointer + param_num >= Len(memory)
       \/ /\ get_param_type(Decoded.val, param_num) = Ok("Read")
          /\ Address(param_num).err = NoErr
          /\ Address(param_num).val >= Len(memory)

\* the step() of this transition reads a cell at or beyond the extent: the
\* instruction word, or a cell for a parameter
ReadsBeyond ==
    /\ Steps
    /\ \/ instruction_pointer >= Len(memory)
       \/ Executes /\ \E n \in 1..3 : ReadBeyond(n)

\* C31, as the specification states it: a step() that reads a cell at or
\* beyond the extent and stores nothing makes the tape longer.
C31_ReadGrowsExtent ==
    [][(ReadsBeyond /\ last_set' = <<>>) => Len(memory') > Len(memory)]_vars

\* C31, amended: a step() that reads a cell at or beyond the extent reads 0
\* there and leaves the extent as it is; the extent changes only by the
\* store of the step, if it makes one beyond the extent.
C31_ReadLeavesExtent ==
    [][ReadsBeyond
         => /\ instruction_pointer >= Len(memory) => Word = 0
            /\ Executes
                 => \A n \in 1..3 :
                       /\ (Resolves(n) /\ instruction_pointer + n >= Len(memory))
                            => Raw(n) = 0
                       /\ (ReadBeyond(n) /\ Read(n).err = NoErr
                             /\ Address(n).val >= Len(memory))
                            => Read(n).val = 0
            /\ last_set' = <<>> => memory' = memory
            /\ last_set' # <<>>
                 => Len(memory') = IF last_set'[1] >= Len(memory)
                                   THEN last_set'[1] + 1
                                   ELSE Len(memory)]_vars

\* the JumpIfTrue at address 0 has read cell 9, beyond the extent, found 0
\* there and not jumped, and the extent is that of the program
C31_Witness ==
    /\ last_op \in {"step", "run"}
    /\ fatal = NoErr
    /\ InfiniteTape_get(memory, 0) = 5
    /\ InfiniteTape_get(memory, 1) = 9
    /\ instruction_pointer = 3
    /\ Len(memory) = program_len
    /\ Len(memory) <= 9

\* the panics of step()
StepPanics ==
    {"Unknown opcode", "Unrecognized parameter mode digit",
     "Write parameter must not be in immediate mode", "Invalid address",
     "Cannot jump to negative address", "Invalid new relative base"}

\* C33: a step() that fails has set the status to Running and changed
\* nothing else: the tape, the instruction pointer, the relative base and
\* both ports are as before the step, and no cell was stored.
C33_FailedStepChangesNothing ==
    [][(Steps /\ fatal' # NoErr)
         => /\ fatal' \in StepPanics
            /\ state' = "Running"
            /\ FrameUnchanged
            /\ last_set' = <<>>]_vars

\* an Input with a value pending has failed on its parameter in Immediate
\* mode, and the value is still in the port
C33_Witness ==
    /\ fatal = "Write parameter must not be in immediate mode"
    /\ Decoded = Ok("Input")
    /\ input_source # <<>>
    /\ state = "Running"

\* the opcodes that store
StoringOps == {"Add", "Mul", "LessThan", "Equals", "Input"}

\* C34: a step() of Add, Mul, LessThan, Equals or an executed Input that
\* returns changes the cell at the address of its Write parameter, extends
\* the tape by cells of 0 up to it if it lies beyond the extent, and changes
\* no other cell; every other step() leaves the tape, cells and extent, as it
\* was.
C34_AtMostOneCell ==
    [][Steps
         => IF Completes(StoringOps)
            THEN /\ last_set' # <<>>
                 /\ StoredAt(ModeAddress(Arity[Decoded.val]), last_set'[2])
                 /\ Len(memory') = IF last_set'[1] >= Len(memory)
                                   THEN last_set'[1] + 1
                                   ELSE Len(memory)
                 /\ Cardinality({i \in 0..(Len(memory') - 1) :
                        InfiniteTape_get(memory', i) # InfiniteTape_get(memory, i)}) <= 1
            ELSE /\ memory' = memory
                 /\ last_set' = <<>>]_vars

\* the Input at address 0 of a program of 4 words has stored at address 5,
\* and the cell 4 between is 0
C34_Witness ==
    /\ last_op \in {"step", "run"}
    /\ program_len = 4
    /\ Len(memory) = 6
    /\ InfiniteTape_get(memory, 0) = 3
    /\ InfiniteTape_get(memory, 4) = 0
    /\ last_set # <<>>
    /\ last_set[1] = 5
    /\ last_set[2] # 0
    /\ instruction_pointer = 2

\* the Vm with the relative base new_base
Rebased(new_base) == [Self EXCEPT !.relative_base = new_base]

\* the results r and q of step() differ in the relative base at most
SameButBase(r, q) ==
    /\ r.err = q.err
    /\ r.ret = q.ret
    /\ r.wrote = q.wrote
    /\ r.executed = q.executed
    /\ [r.vm EXCEPT !.relative_base = 0] = [q.vm EXCEPT !.relative_base = 0]

\* no parameter that the instruction at the instruction pointer resolves is
\* in Relative mode
NoRelative == \A n \in 1..3 : Resolves(n) => Digit(n) # 2

\* C35: an AdjustRelativeBase that returns sets the relative base to the old
\* base plus read(1) and the instruction pointer to ip + 2; every other
\* step() leaves the relative base as it was; and an instruction that
\* resolves no parameter in Relative mode does the same from another
\* relative base, but for the base itself.
C35_RelativeBaseFrame ==
    [][/\ Steps
            => IF Completes({"AdjustRelativeBase"})
               THEN /\ relative_base' = relative_base + Read(1).val
                    /\ instruction_pointer' = instruction_pointer + 2
               ELSE relative_base' = relative_base
       /\ (Executes /\ NoRelative /\ Decoded.val # "AdjustRelativeBase")
            => /\ SameButBase(step(Self), step(Rebased(relative_base + 1)))
               /\ step(Rebased(relative_base + 1)).vm.relative_base
                      = relative_base + 1
       /\ (Completes({"AdjustRelativeBase"}) /\ NoRelative)
            => step(Rebased(relative_base + 1)).vm.relative_base
                   = relative_base' + 1]_vars

\* after the relative base was raised to 1, the Add at address 2, whose
\* parameters are in Immediate and Position mode, has stored 2 at address 6
C35_Witness ==
    /\ last_op \in {"step", "run"}
    /\ relative_base = 1
    /\ InfiniteTape_get(memory, 0) = 109
    /\ InfiniteTape_get(memory, 2) = 1101
    /\ instruction_pointer = 6
    /\ last_set = <<6, 2>>

\* C36: a step() with the instruction pointer at or beyond the extent of the
\* tape fetches 0 and fails with "Unknown opcode", having changed nothing
\* but the status; if it is a step() of run(), run() does not return.
C36_RunningOffTheEnd ==
    [][(Steps /\ instruction_pointer >= Len(memory))
         => /\ Word = 0
            /\ fatal' = "Unknown opcode"
            /\ FrameUnchanged
            /\ last_op' = "run" => (in_run' /\ ret' = ret)]_vars

\* run() has executed the last instruction of the program, which was no
\* Terminate, and failed beyond it
C36_Witness ==
    /\ last_op = "run"
    /\ fatal = "Unknown opcode"
    /\ prev_state = "Running"
    /\ instruction_pointer = program_len
    /\ Len(memory) = program_len
    /\ instruction_pointer > 0

----------------------------------------------------------------------------
(* Properties of the timing of input *)

\* the Vm at index i has got all the input it will get and its last run()
\* has returned
Finished(i) ==
    /\ Alive
    /\ ~in_run
    /\ \/ vms[i].state = "Terminated"
       \/ /\ vms[i].state = "WaitForInput"
          /\ Amp(i).input_source = <<>>
          /\ i = Lazy => pushes = Len(pushed)

\* what the claim compares of a Vm
Outcome(vm) ==
    <<vm.memory, vm.instruction_pointer, vm.relative_base, vm.state,
      vm.output_sink>>

\* C32: when the Vm that got every input value before its run() and the Vm
\* that got each value only after its run() had returned WaitForInput have
\* both finished, their tapes, instruction pointers, relative bases, statuses
\* and outputs are the same; and when a run() of one of them has failed, the
\* other has not finished.
C32_TimingOfInputIsUnobservable ==
    /\ (Finished(Eager) /\ Finished(Lazy))
         => Outcome(Amp(Eager)) = Outcome(Amp(Lazy))
    /\ (fatal # NoErr /\ actor = Eager) => ~Finished(Lazy)
    /\ (fatal # NoErr /\ actor = Lazy) => ~Finished(Eager)

\* both Vms have read two values and written them, the second Vm having
\* been suspended twice
C32_Witness ==
    /\ Finished(Eager)
    /\ Finished(Lazy)
    /\ Len(pushed) = 2
    /\ pushes = 2
    /\ Amp(Eager).input_source = <<>>
    /\ vms[Lazy].state = "Terminated"
    /\ Len(Amp(Lazy).output_sink) = 2
    /\ Amp(Lazy).output_sink = pushed

----------------------------------------------------------------------------
(* Properties of the Vm of day 7 *)

\* C37: when run() of the Vm of day 7 has returned, the status it returned
\* is WaitForInput or Terminated.
C37_Day7RunReturnsTerminalStatus ==
    (last_op = "run" /\ fatal = NoErr /\ ~in_run)
        => ret \in {"WaitForInput", "Terminated"}

----------------------------------------------------------------------------
(* Properties of the feedback circuit *)

\* how many times run() was called on the Vm with index v
CallsOf(v) == Cardinality({k \in 1..Len(fb.calls) : fb.calls[k].vm = v})

\* the signal the Vm with index v is due in round r
SignalDue(v, r) ==
    IF v > 0 THEN fb.emitted[v][r]
    ELSE IF r = 1 THEN 0
    ELSE fb.emitted[AMP_COUNT][r - 1]

\* the driver is between two iterations of its inner loop, or has returned
BetweenRuns == fatal = NoErr /\ fb.pc \in {"feed", "done"}

\* C38: run() is called on the Vms in the order 0, 1, 2, 3, 4, round after
\* round, and never on a Vm that is Terminated; the first value a Vm is
\* given is its phase setting, and in each round it is given one value more,
\* the one value the Vm before it wrote in that round (the Vm 0: 0 in the
\* first round, then the value the Vm 4 wrote in the round before); the
\* function returns at the end of the first round at which the Vm 4 is
\* Terminated, and it returns the last value that Vm wrote.
C38_FeedbackSchedule ==
    /\ \A k \in 1..Len(fb.calls) :
          /\ fb.calls[k].vm = (k - 1) % AMP_COUNT
          /\ fb.calls[k].status # "Terminated"
    /\ \A v \in 0..(AMP_COUNT - 1) :
          /\ fb.fed[v + 1] # <<>> => fb.fed[v + 1][1] = fb.phase_setting[v + 1]
          /\ \A r \in 1..(Len(fb.fed[v + 1]) - 1) :
                fb.fed[v + 1][r + 1] = SignalDue(v, r)
          /\ BetweenRuns
                => /\ Len(fb.fed[v + 1]) = 1 + CallsOf(v)
                   /\ Len(fb.emitted[v + 1]) = CallsOf(v)
                   /\ vms[v + 1].output_sink = <<>>
    /\ \A e \in 1..Len(fb.ends) :
          (fb.ends[e] = "Terminated") <=> (fb.pc = "done" /\ e = Len(fb.ends))
    /\ fb.pc = "done"
          => /\ fb.ends # <<>>
             /\ Len(fb.calls) = AMP_COUNT * Len(fb.ends)
             /\ vms[AMP_COUNT].state = "Terminated"
             /\ fb.result = <<fb.emitted[AMP_COUNT][Len(fb.emitted[AMP_COUNT])]>>

\* the example has returned its result after five rounds
C38_Witness ==
    /\ fb.pc = "done"
    /\ fb.phase_setting = <<9, 8, 7, 6, 5>>
    /\ Len(fb.ends) = 5
    /\ fb.result = <<139629729>>

----------------------------------------------------------------------------
(* Properties of next_permutation and optimize_phase_setting *)

\* v has no element smaller than the one after it
WeaklyDecreasing(v) == \A k \in 1..(Len(v) - 1) : v[k] >= v[k + 1]

\* v has every element smaller than the one after it
StrictlyIncreasing(v) == \A k \in 1..(Len(v) - 1) : v[k] < v[k + 1]

\* the rearrangements of v
Rearrangements(v) ==
    {w \in [1..Len(v) -> {v[k] : k \in 1..Len(v)}] :
        \A x \in {v[k] : k \in 1..Len(v)} :
            Cardinality({k \in 1..Len(v) : w[k] = x})
                = Cardinality({k \in 1..Len(v) : v[k] = x})}

\* v is before w in the lexicographic order, both of one length
LexLess(v, w) ==
    \E k \in 1..Len(v) :
        /\ v[k] < w[k]
        /\ \A j \in 1..(k - 1) : v[j] = w[j]

====
